---- MODULE Spec2Model ----
(***************************************************************************)
(* Model of src/main/conversions.c of the Aerospike Python client: the     *)
(* conversions between host (Python) objects and the driver's value model. *)
(*                                                                         *)
(* Every conversion entry point is a synchronous C function.  It is        *)
(* modelled as an operator that takes the inputs of the C function (the    *)
(* as_error record included) and returns a record of everything the        *)
(* function writes; one action per entry point applies the operator to     *)
(* inputs drawn from bounded sets and stores what the call wrote.          *)
(*                                                                         *)
(* Host objects are records tagged by their CPython type.  The checks are  *)
(* those of the C API names the source is written against: PyString_Check  *)
(* holds of "str", PyUnicode_Check of "unicode", PyInt_Check of "int",     *)
(* PyLong_Check of "long", PyByteArray_Check of "bytearray".  A C NULL     *)
(* pointer is PyNULL; Py_None is the host null.                            *)
(*                                                                         *)
(* The creation of a host object (PyString_FromString, PyTuple_New, ...)   *)
(* is taken to succeed: memory exhaustion in the interpreter is not        *)
(* modelled in the key and record codecs.                                  *)
(***************************************************************************)
EXTENDS Integers, Sequences, FiniteSets, TLC

VARIABLES
    call,      \* the entry point called last, "none" after construction
    arg,       \* the input of that call
    err,       \* the as_error record the caller threads through every call
    key,       \* the caller's as_key (out-parameter of pyobject_to_key)
    inits,     \* the as_key initializers the last call invoked, in order
    obj,       \* the PyObject * out-parameter of the last call
    key_src,   \* the host object the key was parsed from, PyNULL if none
    ret,       \* the as_status the last call returned
    out,       \* the driver-side out-parameter of the last call (as_val *,
               \* as_record, as_cdt_ctx, as_binop)
    trace      \* the driver objects the last call initialized, destroyed or
               \* left allocated, in order

vars == <<call, arg, err, key, inits, obj, key_src, ret, out, trace>>

----------------------------------------------------------------------------
(* Integer widths.  TLC's integers are 32-bit, so a number wider than that *)
(* is kept in pieces.                                                      *)

\* A Py_ssize_t length hi * 2^32 + mid * 2^31 + lo, mid \in {0,1}, 0 <= lo < 2^31.
Size(hi, mid, lo) == [hi |-> hi, mid |-> mid, lo |-> lo]
SmallSize(n) == Size(0, 0, n)

\* (uint32_t) x : the bits above 2^32 are dropped
ToUint32(x) == Size(0, x.mid, x.lo)

\* a uint32_t handed to a %d conversion is read as a signed int
ToInt32(x) == IF x.mid = 1 THEN (x.lo - 2147483647) - 1 ELSE x.lo

\* A host integer q * 2^63 + r, with r small: q = 0 for the everyday values,
\* q = 1 with r < 0 just under INT64_MAX + 1, q = -1 with r >= 0 just above
\* INT64_MIN - 1.
BigInt(q, r) == [q |-> q, r |-> r]
SmallInt(r) == BigInt(0, r)

\* INT64_MIN <= x <= INT64_MAX
InInt64(x) == \/ x.q = 0
              \/ x.q = 1 /\ x.r < 0
              \/ x.q = -1 /\ x.r >= 0

Digit(d) == CASE d = 0 -> "0" [] d = 1 -> "1" [] d = 2 -> "2" [] d = 3 -> "3"
              [] d = 4 -> "4" [] d = 5 -> "5" [] d = 6 -> "6" [] d = 7 -> "7"
              [] d = 8 -> "8" [] d = 9 -> "9"

RECURSIVE FormatUnsigned(_)
FormatUnsigned(n) ==
    IF n < 10 THEN Digit(n) ELSE FormatUnsigned(n \div 10) \o Digit(n % 10)

\* printf's %d of an int: the digits of the magnitude, after a minus sign if
\* negative (the magnitude of a negative n is -(n + 1) + 1, formed by digits
\* so that INT_MIN does not overflow)
FormatD(n) ==
    IF n >= 0 THEN FormatUnsigned(n)
    ELSE LET m == -(n + 1)   \* magnitude minus one, never overflows
         IN IF m % 10 = 9
            THEN "-" \o FormatUnsigned((m \div 10) + 1) \o "0"
            ELSE "-" \o (IF m < 10 THEN "" ELSE FormatUnsigned(m \div 10)) \o Digit((m % 10) + 1)

----------------------------------------------------------------------------
(* Host objects *)

PyNULL == [t |-> "NULL"]
Py_None == [t |-> "None"]
PyStr(s) == [t |-> "str", s |-> s]
PyUnicode(s) == [t |-> "unicode", u |-> s]
\* a Python 2 int always fits a C long; a long is unbounded (both BigInt)
PyInt(i) == [t |-> "int", i |-> i]
PyLong(n) == [t |-> "long", n |-> n]
PyFloat(f) == [t |-> "float", f |-> f]
\* size is the byte array's length; data its leading bytes (all of them
\* unless the array is longer than anything the code reads)
PyByteArray(size, data) == [t |-> "bytearray", size |-> size, data |-> data]
PyTuple(items) == [t |-> "tuple", items |-> items]
PyList(items) == [t |-> "list", items |-> items]
\* a dictionary: a function from its keys (host objects) to its values
PyDict(d) == [t |-> "dict", d |-> d]

PyString_Check(o) == o.t = "str"
PyUnicode_Check(o) == o.t = "unicode"
\* PyBool_Type is a subclass of PyInt_Type: the check holds of a bool
PyInt_Check(o) == o.t = "int" \/ o.t = "bool"
PyLong_Check(o) == o.t = "long"
PyByteArray_Check(o) == o.t = "bytearray"
PyTuple_Check(o) == o.t = "tuple"
PyDict_Check(o) == o.t = "dict"

PyDict_GetItemString(o, k) == IF PyStr(k) \in DOMAIN o.d THEN o.d[PyStr(k)] ELSE PyNULL

----------------------------------------------------------------------------
(* The outcome record *)

AEROSPIKE_OK == "AEROSPIKE_OK"
AEROSPIKE_ERR_PARAM == "AEROSPIKE_ERR_PARAM"
AEROSPIKE_ERR_CLIENT == "AEROSPIKE_ERR_CLIENT"

as_error_reset(e) == [code |-> AEROSPIKE_OK, message |-> ""]
as_error_update(e, code, message) == [code |-> code, message |-> message]

----------------------------------------------------------------------------
(* Keys *)

AS_DIGEST_VALUE_SIZE == 20

\* the caller's as_key before any initializer has written it
UninitKey == [t |-> "uninit"]

NoValue == [t |-> "NULL"]
as_integer(i) == [t |-> "AS_INTEGER", i |-> i]
\* str is <<>> for a null char *, <<s>> otherwise
as_string(str, free) == [t |-> "AS_STRING", str |-> str, free |-> free]
as_bytes_raw(size, data) == [t |-> "AS_BYTES", btype |-> "AS_BYTES_BLOB", size |-> size, data |-> data]

NoDigest == [init |-> FALSE, value |-> <<>>]

\* What every as_key initializer of the driver does with the names: ns is
\* copied, a null set is stored as the empty string.  set is <<>> for a
\* null char *, <<s>> otherwise.
as_key_cons(ns, set, valuep, digest) ==
    [t |-> "as_key", ns |-> ns, set |-> IF set = <<>> THEN "" ELSE set[1],
     valuep |-> valuep, digest |-> digest]

as_key_init_strp(ns, set, k, free) == as_key_cons(ns, set, as_string(<<k>>, free), NoDigest)
as_key_init_int64(ns, set, k) == as_key_cons(ns, set, as_integer(k), NoDigest)
as_key_init_raw(ns, set, data, sz) == as_key_cons(ns, set, as_bytes_raw(sz, data), NoDigest)
\* a slip: the digest bytes are stored last byte first
as_key_init_digest_Reversed(ns, set, digest) ==
    as_key_cons(ns, set, NoValue,
        [init |-> TRUE,
         value |-> [i \in 1..AS_DIGEST_VALUE_SIZE |-> digest[AS_DIGEST_VALUE_SIZE + 1 - i]]])

as_key_init_digest(ns, set, digest) ==
    as_key_cons(ns, set, NoValue, [init |-> TRUE, value |-> SubSeq(digest, 1, AS_DIGEST_VALUE_SIZE)])

\* strdup(k), PyString_AsString(o): the characters of a host string
PyString_AsString(o) == IF o.t = "str" THEN o.s ELSE o.u

\* a slip: only the null pointer is tested, None counts as a user-key
HasUserKey_NullOnly(py_key) == py_key # PyNULL

\* line 912: a user-key is supplied
HasUserKey(py_key) == py_key # PyNULL /\ py_key # Py_None

\* line 963: a digest is supplied
HasDigest(py_digest) == py_digest # PyNULL /\ py_digest # Py_None

\* a slip: only a digest that is too short is refused
DigestSizeOk_AtLeast(sz) == sz.mid = 1 \/ sz.lo >= AS_DIGEST_VALUE_SIZE

\* line 967, negated: the digest has the driver's digest size
DigestSizeOk(sz) == sz = SmallSize(AS_DIGEST_VALUE_SIZE)

\* line 863, negated
TupleSizeOk(size) == ~(size < 3 \/ size > 4)

KeyReturn(e, k, i) == [err |-> e, key |-> k, inits |-> i]

\* An as_key initializer was called.  key_init_ok is the driver's part:
\* whether the initializer returns the key (TRUE) or NULL (FALSE, the driver
\* refusing the namespace or set it is given).  A null result is flagged at
\* line 986; what the driver then left in the key is not known.
KeyInitialized(e0, name, k, key_init_ok) ==
    IF key_init_ok
    THEN KeyReturn(e0, k, <<name>>)
    ELSE KeyReturn(as_error_update(e0, AEROSPIKE_ERR_PARAM, "key is invalid"),
                   UninitKey, <<name>>)

\* No initializer was called: the error is recorded, returnResult is still
\* the caller's key (not null) and the key is untouched.
KeyRejected(e0, key_in, msg) ==
    KeyReturn(as_error_update(e0, AEROSPIKE_ERR_PARAM, msg), key_in, <<>>)

\* lines 913-961: the key is built from the user-key.  (A PyBytes object is
\* a PyString object, so the PyBytes_Check branch of line 955 is never
\* reached after the PyString_Check of line 922.)
key_from_user_key(e0, py_key, ns, set, key_in, key_init_ok) ==
    IF PyUnicode_Check(py_key)
    THEN KeyInitialized(e0, "as_key_init_strp",
                        as_key_init_strp(ns, set, PyString_AsString(py_key), TRUE), key_init_ok)
    ELSE IF PyString_Check(py_key)
    THEN KeyInitialized(e0, "as_key_init_strp",
                        as_key_init_strp(ns, set, PyString_AsString(py_key), FALSE), key_init_ok)
    ELSE IF PyInt_Check(py_key)
    THEN KeyInitialized(e0, "as_key_init_int64", as_key_init_int64(ns, set, py_key.i), key_init_ok)
    ELSE IF PyLong_Check(py_key)
    THEN IF ~InInt64(py_key.n)
         THEN KeyRejected(e0, key_in, "integer value for KEY exceeds sys.maxsize")
         ELSE KeyInitialized(e0, "as_key_init_int64", as_key_init_int64(ns, set, py_key.n),
                             key_init_ok)
    ELSE IF PyByteArray_Check(py_key)
    THEN LET sz == ToUint32(py_key.size)
         IN IF sz = SmallSize(0)
            THEN KeyRejected(e0, key_in, "Byte array size cannot be 0")
            ELSE KeyInitialized(e0, "as_key_init_raw",
                                as_key_init_raw(ns, set, py_key.data, sz), key_init_ok)
    ELSE KeyRejected(e0, key_in, "key is invalid")

\* lines 964-976: the key is built from the digest
key_from_digest(e0, py_digest, ns, set, key_in, key_init_ok) ==
    IF PyByteArray_Check(py_digest)
    THEN LET sz == ToUint32(py_digest.size)
         IN IF ~DigestSizeOk(sz)
            THEN KeyRejected(e0, key_in,
                             "digest size is invalid. should be 20 bytes, but received "
                             \o FormatD(ToInt32(sz)))
            ELSE KeyInitialized(e0, "as_key_init_digest",
                                as_key_init_digest(ns, set, py_digest.data), key_init_ok)
    ELSE KeyRejected(e0, key_in, "digest is invalid. expected a bytearray")

\* a slip: the final else is missing, the call returns with no error
key_without_locator_Silent(e0, key_in) == KeyReturn(e0, key_in, <<>>)

\* line 979: neither a user-key nor a digest
key_without_locator(e0, key_in) ==
    KeyRejected(e0, key_in, "either key or digest is required")

\* a slip: the digest is looked at before the user-key
key_locator_DigestFirst(e0, py_key, py_digest, ns, set, key_in, key_init_ok) ==
    IF HasDigest(py_digest)
    THEN key_from_digest(e0, py_digest, ns, set, key_in, key_init_ok)
    ELSE IF HasUserKey(py_key)
    THEN key_from_user_key(e0, py_key, ns, set, key_in, key_init_ok)
    ELSE key_without_locator(e0, key_in)

\* lines 912-980: the user-key if there is one, else the digest
key_locator(e0, py_key, py_digest, ns, set, key_in, key_init_ok) ==
    IF HasUserKey(py_key)
    THEN key_from_user_key(e0, py_key, ns, set, key_in, key_init_ok)
    ELSE IF HasDigest(py_digest)
    THEN key_from_digest(e0, py_digest, ns, set, key_in, key_init_ok)
    ELSE key_without_locator(e0, key_in)

\* lines 860-880: the four slots of a 3- or 4-tuple or of a dictionary, PyNULL
\* for a slot that is not there
key_slots(py_keytuple) ==
    IF PyTuple_Check(py_keytuple)
    THEN [ns |-> py_keytuple.items[1], set |-> py_keytuple.items[2],
          key |-> py_keytuple.items[3],
          digest |-> IF Len(py_keytuple.items) = 4 THEN py_keytuple.items[4] ELSE PyNULL]
    ELSE [ns |-> PyDict_GetItemString(py_keytuple, "ns"),
          set |-> PyDict_GetItemString(py_keytuple, "set"),
          key |-> PyDict_GetItemString(py_keytuple, "key"),
          digest |-> PyDict_GetItemString(py_keytuple, "digest")]

\* pyobject_to_key(err, py_keytuple, key).  key_in is the caller's as_key as
\* it is before the call.  Returns what the call leaves in *err and *key,
\* and the as_key initializers it invoked.
pyobject_to_key(err_in, py_keytuple, key_in, key_init_ok) ==
    LET e0 == as_error_reset(err_in)
        Fail(msg) == KeyRejected(e0, key_in, msg)
        isTuple == PyTuple_Check(py_keytuple)
        isDict == PyDict_Check(py_keytuple)
        size == IF isTuple THEN Len(py_keytuple.items) ELSE 0
        slots == key_slots(py_keytuple)
        py_ns == slots.ns
        py_set == slots.set
        py_key == slots.key
        py_digest == slots.digest
        ns == PyString_AsString(py_ns)
        hasSet == py_set # PyNULL /\ py_set # Py_None
        set == IF hasSet THEN <<PyString_AsString(py_set)>> ELSE <<>>
    IN  IF py_keytuple = PyNULL THEN Fail("key is null")
        ELSE IF isTuple /\ ~TupleSizeOk(size)
        THEN Fail("key tuple must be (Namespace, Set, Key) or (Namespace, Set, None, Digest)")
        ELSE IF ~isTuple /\ ~isDict THEN Fail("key is invalid")
        ELSE IF py_ns = PyNULL THEN Fail("namespace is required")
        ELSE IF ~PyString_Check(py_ns) THEN Fail("namespace must be a string")
        ELSE IF hasSet /\ ~PyString_Check(py_set) /\ ~PyUnicode_Check(py_set)
        THEN Fail("set must be a string")
        ELSE key_locator(e0, py_key, py_digest, ns, set, key_in, key_init_ok)

\* the first sz bytes of a buffer whose leading bytes are data
LeadingBytes(data, sz) ==
    IF sz.hi = 0 /\ sz.mid = 0 /\ sz.lo < Len(data) THEN SubSeq(data, 1, sz.lo) ELSE data

\* key_to_pyobject(err, key, obj): lines 1368-1464.  key is NullKey for a
\* null pointer.  A C long holds 64 bits, so (long) of an int64_t is exact.
NullKey == [t |-> "NULL"]

\* a slip: an empty name is emitted as an empty host string
key_name_slot_Empty(name) == PyStr(name)

\* lines 1383-1389, 1435-1443: a name that is not empty, else host-null
key_name_slot(name) == IF Len(name) > 0 THEN PyStr(name) ELSE Py_None

\* lines 1391-1428, 1445-1448: the user-key by the tag of the stored value
key_user_slot(val) ==
    IF val = NoValue THEN Py_None
    ELSE IF val.t = "AS_INTEGER" THEN PyInt(val.i)
    ELSE IF val.t = "AS_STRING" THEN PyStr(val.str[1])
    ELSE IF val.t = "AS_BYTES" THEN PyByteArray(val.size, LeadingBytes(val.data, val.size))
    ELSE Py_None

\* a slip: the digest is emitted only for a key without a user-key
key_digest_slot_NoUserKey(k) ==
    IF k.digest.init /\ k.valuep = NoValue
    THEN PyByteArray(SmallSize(AS_DIGEST_VALUE_SIZE), k.digest.value)
    ELSE Py_None

\* lines 1430-1432, 1451-1454: the digest if it is initialized
key_digest_slot(k) ==
    IF k.digest.init
    THEN PyByteArray(SmallSize(AS_DIGEST_VALUE_SIZE), k.digest.value)
    ELSE Py_None

key_to_pyobject(err_in, k) ==
    LET e0 == as_error_reset(err_in)
    IN  IF k = NullKey
        THEN [err |-> as_error_update(e0, AEROSPIKE_ERR_CLIENT, "key is null"), obj |-> PyNULL]
        ELSE [err |-> e0,
              obj |-> PyTuple(<<key_name_slot(k.ns), key_name_slot(k.set),
                                key_user_slot(k.valuep), key_digest_slot(k)>>)]

----------------------------------------------------------------------------
(* Values of the driver (as_val) and records *)

as_double(d) == [t |-> "AS_DOUBLE", d |-> d]
as_list(items) == [t |-> "AS_LIST", items |-> items]
\* pairs is the sequence of <<key, value>> in the driver's iteration order
as_map(pairs) == [t |-> "AS_MAP", pairs |-> pairs]
as_nil == [t |-> "AS_NIL"]
as_geojson(json) == [t |-> "AS_GEOJSON", json |-> json]
\* a value whose type tag is none of those do_val_to_pyobject names
as_undef == [t |-> "AS_UNDEF"]
\* a Bytes value written by the fallback serializer: payload is the host
\* object the bytes decode to, PyNULL when they do not decode
as_bytes_serialized(size, data, payload) ==
    [t |-> "AS_BYTES", btype |-> "AS_BYTES_PYTHON", size |-> size, data |-> data,
     payload |-> payload]
as_bin(name, value) == [name |-> name, value |-> value]
as_record(k, gen, ttl, bins) ==
    [t |-> "AS_REC", key |-> k, gen |-> gen, ttl |-> ttl, bins |-> bins]
NullRecord == [t |-> "NULL"]

\* the key of a record the driver initialized without one
EmptyKey == as_key_cons("", <<>>, NoValue, NoDigest)

\* a host dictionary as a function from its keys (host objects) to values
EmptyDict == PyDict(<<>>)
\* a slip: a key that is already there keeps its value
PyDict_SetItem_KeepFirst(o, k, v) ==
    PyDict([x \in (DOMAIN o.d) \cup {k} |-> IF x \in DOMAIN o.d THEN o.d[x] ELSE v])

PyDict_SetItem(o, k, v) ==
    PyDict([x \in (DOMAIN o.d) \cup {k} |-> IF x = k THEN v ELSE o.d[x]])

\* PyDict_SetItem fails with TypeError on a key that cannot be hashed
Hashable(o) == o.t \notin {"list", "dict", "bytearray"}

ValReturn(e, o) == [err |-> e, obj |-> o]

\* deserialize_based_on_as_bytes_type (serializer.c): raw bytes come back as
\* a byte array, serialized bytes as the object they decode to
deserialize_based_on_as_bytes_type(e0, bval) ==
    IF bval.btype = "AS_BYTES_BLOB"
    THEN ValReturn(e0, PyByteArray(bval.size, LeadingBytes(bval.data, bval.size)))
    ELSE IF bval.payload = PyNULL
    THEN ValReturn(as_error_update(e0, AEROSPIKE_ERR_CLIENT, "Unable to deserialize bytes"), PyNULL)
    ELSE ValReturn(e0, bval.payload)

\* AerospikeGeospatial_DoLoads and AerospikeGeospatial_New (geo.c): the
\* GeoJSON text is loaded into a geospatial object, or the load fails
GeospatialLoads(e0, json) ==
    IF json = "" THEN ValReturn(as_error_update(e0, AEROSPIKE_ERR_CLIENT, "Unable to load GeoJSON"), PyNULL)
    ELSE ValReturn(e0, [t |-> "Geospatial", geo_data |-> json])

\* a pointer left pointing at an object the call has released
PyFreed == [t |-> "FREED"]

OK(e) == e.code = AEROSPIKE_OK

RECURSIVE do_val_to_pyobject(_, _, _)
RECURSIVE list_to_pyobject_each(_, _, _, _)
RECURSIVE tuple_list_loop(_, _, _, _)
RECURSIVE tuple_list_loop_Overlapping(_, _, _, _)
RECURSIVE map_to_pyobject_each(_, _, _, _)
RECURSIVE do_record_to_pyobject(_, _, _, _)
RECURSIVE do_bins_to_pyobject_each(_, _, _, _, _)

val_to_pyobject(err_in, val) == do_val_to_pyobject(err_in, val, FALSE)
val_to_pyobject_cnvt_list_to_map(err_in, val) == do_val_to_pyobject(err_in, val, TRUE)

\* the body of list_to_pyobject_each (lines 1190-1203) once element i is
\* converted to r
list_to_pyobject_item(r, items, i, py_list) ==
    IF ~OK(r.err) THEN ValReturn(r.err, py_list)
    ELSE list_to_pyobject_each(r.err, items, i + 1, PyList(Append(py_list.items, r.obj)))

\* as_list_foreach with list_to_pyobject_each (lines 1183-1204), from
\* element i on: py_list holds the items set so far.  Stops at the first
\* element that fails.
list_to_pyobject_each(e, items, i, py_list) ==
    IF i > Len(items) THEN ValReturn(e, py_list)
    ELSE list_to_pyobject_item(val_to_pyobject(e, items[i]), items, i, py_list)

\* a container that failed is released and its pointer set to null (lines
\* 1222-1226)
NullOnFailure(r) == IF ~OK(r.err) THEN ValReturn(r.err, PyNULL) ELSE r

\* a container that failed is released and its pointer left as it was
\* (lines 1174-1178, 1297-1300, 1525-1528, 1584-1587)
FreedOnFailure(r) == IF ~OK(r.err) THEN ValReturn(r.err, PyFreed) ELSE r

\* list_to_pyobject (lines 1206-1229): no reset of err at entry
list_to_pyobject(err_in, list) ==
    NullOnFailure(list_to_pyobject_each(err_in, list.items, 1, PyList(<<>>)))

\* a slip: the pairs overlap, (0,1), (1,2), ... instead of (0,1), (2,3), ...
tuple_list_loop_Overlapping(e, items, i, py_list) ==
    IF i + 1 > Len(items) THEN ValReturn(e, py_list)
    ELSE LET k == val_to_pyobject(e, items[i])
         IN IF ~OK(k.err) THEN ValReturn(k.err, py_list)
            ELSE LET v == val_to_pyobject(k.err, items[i + 1])
                 IN IF ~OK(v.err) THEN ValReturn(v.err, py_list)
                    ELSE tuple_list_loop_Overlapping(v.err, items, i + 1,
                             PyList(Append(py_list.items, PyTuple(<<k.obj, v.obj>>))))

\* lines 1157-1172: the pair (k, v) of items i and i + 1 is appended
tuple_list_value(k, v, items, i, py_list) ==
    IF ~OK(v.err) THEN ValReturn(v.err, py_list)
    ELSE tuple_list_loop(v.err, items, i + 2,
                         PyList(Append(py_list.items, PyTuple(<<k.obj, v.obj>>))))

\* a slip: the second item of a pair is converted in flatten mode
tuple_list_key_Flattening(k, items, i, py_list) ==
    IF ~OK(k.err) THEN ValReturn(k.err, py_list)
    ELSE tuple_list_value(k, val_to_pyobject_cnvt_list_to_map(k.err, items[i + 1]), items, i,
                          py_list)

\* lines 1146-1156: item i converted to k, then item i + 1
tuple_list_key(k, items, i, py_list) ==
    IF ~OK(k.err) THEN ValReturn(k.err, py_list)
    ELSE tuple_list_value(k, val_to_pyobject(k.err, items[i + 1]), items, i, py_list)

\* the loop of as_list_of_map_to_py_tuple_list (lines 1140-1173) from index
\* i (counted from 1) on
tuple_list_loop(e, items, i, py_list) ==
    IF i > Len(items) THEN ValReturn(e, py_list)
    ELSE tuple_list_key(val_to_pyobject(e, items[i]), items, i, py_list)

\* as_list_of_map_to_py_tuple_list (lines 1126-1181): no reset of err at
\* entry; after a failure *py_list is left pointing at the released list
as_list_of_map_to_py_tuple_list(err_in, list) ==
    IF Len(list.items) % 2 # 0
    THEN ValReturn(as_error_update(err_in, AEROSPIKE_ERR_CLIENT,
                                   "Invalid key list of key/value pairs"), PyNULL)
    ELSE FreedOnFailure(tuple_list_loop(err_in, list.items, 1, PyList(<<>>)))

\* lines 1256-1276 of map_to_pyobject_each: the pair (k, v) is set
map_to_pyobject_value(k, v, pairs, i, py_dict) ==
    IF ~OK(v.err) THEN ValReturn(v.err, py_dict)
    ELSE IF ~Hashable(k.obj)
    THEN ValReturn(as_error_update(v.err, AEROSPIKE_ERR_CLIENT,
                                   "Unable to use unhashable type as a dictionary key"), py_dict)
    ELSE map_to_pyobject_each(v.err, pairs, i + 1, PyDict_SetItem(py_dict, k.obj, v.obj))

\* lines 1244-1255 of map_to_pyobject_each: the key converted to k, then
\* the value
map_to_pyobject_key(k, pairs, i, py_dict) ==
    IF ~OK(k.err) THEN ValReturn(k.err, py_dict)
    ELSE map_to_pyobject_value(k, val_to_pyobject(k.err, pairs[i][2]), pairs, i, py_dict)

\* as_map_foreach with map_to_pyobject_each (lines 1231-1278)
map_to_pyobject_each(e, pairs, i, py_dict) ==
    IF i > Len(pairs) THEN ValReturn(e, py_dict)
    ELSE map_to_pyobject_key(val_to_pyobject(e, pairs[i][1]), pairs, i, py_dict)

\* map_to_pyobject (lines 1280-1303): no reset of err at entry
map_to_pyobject(err_in, map) ==
    FreedOnFailure(map_to_pyobject_each(err_in, map.pairs, 1, EmptyDict))

record_to_pyobject(err_in, rec, k) == do_record_to_pyobject(err_in, rec, k, FALSE)
record_to_pyobject_cnvt_list_to_map(err_in, rec, k) == do_record_to_pyobject(err_in, rec, k, TRUE)

\* a slip: an empty string is externalized as host-null
string_to_pyobject_EmptyIsNone(e0, val) ==
    IF val.str # <<>> /\ val.str # <<"">> THEN ValReturn(e0, PyStr(val.str[1]))
    ELSE ValReturn(e0, Py_None)

\* the AS_STRING case of do_val_to_pyobject (lines 1024-1043): a string
\* whose char * is not null, empty or not, becomes a host string
string_to_pyobject(e0, val) ==
    IF val.str # <<>> THEN ValReturn(e0, PyStr(val.str[1]))
    ELSE ValReturn(e0, Py_None)

\* do_val_to_pyobject (lines 1002-1116).  The caller's *py_val is null
\* before the call; obj is what the call leaves in it.
do_val_to_pyobject(err_in, val, cnvt_list_to_map) ==
    LET e0 == as_error_reset(err_in)
        \* lines 1061, 1072, 1083: the result is stored only on success
        Stored(r) == ValReturn(r.err, IF OK(r.err) THEN r.obj ELSE PyNULL)
    IN  CASE val.t = "AS_INTEGER" -> ValReturn(e0, PyInt(val.i))
          [] val.t = "AS_DOUBLE" -> ValReturn(e0, PyFloat(val.d))
          [] val.t = "AS_STRING" -> string_to_pyobject(e0, val)
          [] val.t = "AS_BYTES" -> deserialize_based_on_as_bytes_type(e0, val)
          [] val.t = "AS_LIST" ->
                IF cnvt_list_to_map
                THEN Stored(as_list_of_map_to_py_tuple_list(e0, val))
                ELSE Stored(list_to_pyobject(e0, val))
          [] val.t = "AS_MAP" -> Stored(map_to_pyobject(e0, val))
          [] val.t = "AS_REC" -> Stored(record_to_pyobject(e0, val, NullKey))
          [] val.t = "AS_NIL" -> ValReturn(e0, Py_None)
          [] val.t = "AS_GEOJSON" -> GeospatialLoads(e0, val.json)
          [] OTHER -> ValReturn(as_error_update(e0, AEROSPIKE_ERR_CLIENT,
                                                "Unknown type for value"), PyNULL)

\* a slip: the generation is left out of the metadata
metadata_to_pyobject_NoGen(err_in, rec) ==
    LET e0 == as_error_reset(err_in)
    IN IF rec = NullRecord
       THEN ValReturn(as_error_update(e0, AEROSPIKE_ERR_CLIENT, "record is null"), PyNULL)
       ELSE ValReturn(e0, PyDict_SetItem(EmptyDict, PyStr("ttl"), PyInt(SmallInt(rec.ttl))))

\* metadata_to_pyobject (lines 1593-1614).  rec->ttl is a uint32_t and
\* rec->gen a uint16_t; a C long holds both exactly.
metadata_to_pyobject(err_in, rec) ==
    LET e0 == as_error_reset(err_in)
    IN IF rec = NullRecord
       THEN ValReturn(as_error_update(e0, AEROSPIKE_ERR_CLIENT, "record is null"), PyNULL)
       ELSE ValReturn(e0, PyDict_SetItem(PyDict_SetItem(EmptyDict, PyStr("ttl"),
                                                       PyInt(SmallInt(rec.ttl))),
                                         PyStr("gen"), PyInt(SmallInt(rec.gen))))

\* lines 1484-1492 of do_bins_to_pyobject_each: bin i converted to r is set
\* under its name
bins_to_pyobject_set(r, bins, i, py_bins, cnvt_list_to_map) ==
    IF ~OK(r.err) THEN ValReturn(r.err, py_bins)
    ELSE do_bins_to_pyobject_each(r.err, bins, i + 1,
             PyDict_SetItem(py_bins, PyStr(bins[i].name), r.obj), cnvt_list_to_map)

\* as_record_foreach with do_bins_to_pyobject_each (lines 1466-1493), from
\* bin i on.  A bin without a value ends the iteration without an error.
do_bins_to_pyobject_each(e, bins, i, py_bins, cnvt_list_to_map) ==
    IF i > Len(bins) THEN ValReturn(e, py_bins)
    ELSE IF bins[i].value = NoValue THEN ValReturn(e, py_bins)
    ELSE bins_to_pyobject_set(IF cnvt_list_to_map
                              THEN val_to_pyobject_cnvt_list_to_map(e, bins[i].value)
                              ELSE val_to_pyobject(e, bins[i].value),
                              bins, i, py_bins, cnvt_list_to_map)

\* bins_to_pyobject (lines 1505-1531); after a failure *py_bins is left
\* pointing at the released dictionary
bins_to_pyobject(err_in, rec, cnvt_list_to_map) ==
    LET e0 == as_error_reset(err_in)
    IN IF rec = NullRecord
       THEN ValReturn(as_error_update(e0, AEROSPIKE_ERR_CLIENT, "record is null"), PyNULL)
       ELSE FreedOnFailure(do_bins_to_pyobject_each(e0, rec.bins, 1, EmptyDict,
                                                    cnvt_list_to_map))

\* lines 1334-1354 of do_record_to_pyobject: a part that is null gives
\* host-null in its slot of the tuple
record_to_pyobject_tuple(rk, rm, rb) ==
    LET Slot(o) == IF o = PyNULL THEN Py_None ELSE o
    IN IF ~OK(rb.err) THEN ValReturn(rb.err, PyNULL)
       ELSE ValReturn(rb.err, PyTuple(<<Slot(rk.obj), Slot(rm.obj), Slot(rb.obj)>>))

\* lines 1323-1333 of do_record_to_pyobject: the metadata rm, then the bins
record_to_pyobject_meta(rk, rm, rec, cnvt_list_to_map) ==
    IF ~OK(rm.err) THEN ValReturn(rm.err, PyNULL)
    ELSE record_to_pyobject_tuple(rk, rm, bins_to_pyobject(rm.err, rec, cnvt_list_to_map))

\* lines 1317-1322 of do_record_to_pyobject: the key rk, then the metadata
record_to_pyobject_key(rk, rec, cnvt_list_to_map) ==
    IF ~OK(rk.err) THEN ValReturn(rk.err, PyNULL)
    ELSE record_to_pyobject_meta(rk, metadata_to_pyobject(rk.err, rec), rec, cnvt_list_to_map)

\* do_record_to_pyobject (lines 1305-1356).  k is NullKey when the caller
\* passes no key.
do_record_to_pyobject(err_in, rec, k, cnvt_list_to_map) ==
    LET e0 == as_error_reset(err_in)
    IN IF rec = NullRecord
       THEN ValReturn(as_error_update(e0, AEROSPIKE_ERR_CLIENT, "record is null"), PyNULL)
       ELSE record_to_pyobject_key(key_to_pyobject(e0, IF k # NullKey THEN k ELSE rec.key),
                                   rec, cnvt_list_to_map)

RECURSIVE operate_bins_loop_ByName(_, _, _, _)
\* a slip: a pair replaces the earlier pair of the same name
operate_bins_loop_ByName(e, bins, i, py_bins) ==
    IF i > Len(bins) THEN ValReturn(e, py_bins)
    ELSE LET r == val_to_pyobject(e, bins[i].value)
             Others(t) == t.items[1] # PyStr(bins[i].name)
         IN IF ~OK(r.err) THEN ValReturn(r.err, py_bins)
            ELSE operate_bins_loop_ByName(r.err, bins, i + 1,
                     PyList(Append(SelectSeq(py_bins.items, Others),
                                   PyTuple(<<PyStr(bins[i].name), r.obj>>))))

RECURSIVE operate_bins_loop(_, _, _, _)
\* lines 1566-1581 of operate_bins_to_pyobject: bin i converted to r is
\* appended as the pair (name, value)
operate_bins_pair(r, bins, i, py_bins) ==
    IF ~OK(r.err) THEN ValReturn(r.err, py_bins)
    ELSE IF r.obj = PyNULL
    THEN ValReturn(as_error_update(r.err, AEROSPIKE_ERR_CLIENT,
                                   "Null entry in operate ordered conversion"), py_bins)
    ELSE operate_bins_loop(r.err, bins, i + 1,
             PyList(Append(py_bins.items, PyTuple(<<PyStr(bins[i].name), r.obj>>))))

\* the while loop of operate_bins_to_pyobject (lines 1561-1582) from bin i on
operate_bins_loop(e, bins, i, py_bins) ==
    IF i > Len(bins) THEN ValReturn(e, py_bins)
    ELSE operate_bins_pair(val_to_pyobject(e, bins[i].value), bins, i, py_bins)

\* operate_bins_to_pyobject (lines 1546-1591); after a failure *py_bins is
\* left pointing at the released list
operate_bins_to_pyobject(err_in, rec) ==
    LET e0 == as_error_reset(err_in)
    IN IF rec = NullRecord
       THEN ValReturn(as_error_update(e0, AEROSPIKE_ERR_CLIENT, "record is null"), PyNULL)
       ELSE FreedOnFailure(operate_bins_loop(e0, rec.bins, 1, PyList(<<>>)))

----------------------------------------------------------------------------
(* The batch converters *)

\* a result status of the driver other than AEROSPIKE_OK: no record for the key
AEROSPIKE_ERR_RECORD_NOT_FOUND == "AEROSPIKE_ERR_RECORD_NOT_FOUND"

\* one entry of a batch: its result status, its key and its record
as_batch_read(result, k, rec) == [result |-> result, key |-> k, record |-> rec]

\* what a batch converter returns: the status, *err and *py_records
BatchReturn(status, e, o) == [ret |-> status, err |-> e, obj |-> o]

RECURSIVE batch_results_loop_SkipMissing(_, _, _, _)
\* a slip: an entry without a record is left out of the list
batch_results_loop_SkipMissing(e, results, i, temp_py_recs) ==
    IF i > Len(results) THEN BatchReturn(AEROSPIKE_OK, e, temp_py_recs)
    ELSE IF results[i].result = AEROSPIKE_OK
    THEN LET r == record_to_pyobject(e, results[i].record, results[i].key)
         IN IF r.obj = PyNULL \/ ~OK(r.err) THEN BatchReturn(r.err.code, r.err, PyNULL)
            ELSE batch_results_loop_SkipMissing(r.err, results, i + 1,
                                                PyList(Append(temp_py_recs.items, r.obj)))
    ELSE LET k == key_to_pyobject(e, results[i].key)
         IN IF k.obj = PyNULL \/ ~OK(k.err) THEN BatchReturn(k.err.code, k.err, PyNULL)
            ELSE batch_results_loop_SkipMissing(k.err, results, i + 1, temp_py_recs)

RECURSIVE batch_results_loop_SkipFailed(_, _, _, _)
\* a slip: an entry that fails to convert is skipped and the loop goes on
batch_results_loop_SkipFailed(e, results, i, temp_py_recs) ==
    IF i > Len(results) THEN BatchReturn(AEROSPIKE_OK, e, temp_py_recs)
    ELSE LET r == IF results[i].result = AEROSPIKE_OK
                  THEN record_to_pyobject(e, results[i].record, results[i].key)
                  ELSE LET k == key_to_pyobject(e, results[i].key)
                       IN ValReturn(k.err, IF k.obj = PyNULL THEN PyNULL
                                           ELSE PyTuple(<<k.obj, Py_None, Py_None>>))
         IN IF r.obj = PyNULL \/ ~OK(r.err)
            THEN batch_results_loop_SkipFailed(r.err, results, i + 1, temp_py_recs)
            ELSE batch_results_loop_SkipFailed(r.err, results, i + 1,
                                               PyList(Append(temp_py_recs.items, r.obj)))

RECURSIVE batch_results_loop(_, _, _, _)
\* an entry of either batch converter whose tuple is r.obj: the converter
\* errors out when there is none, else the tuple is appended
batch_entry_done(r, py_recs) ==
    IF r.obj = PyNULL \/ ~OK(r.err) THEN BatchReturn(r.err.code, r.err, PyNULL)
    ELSE BatchReturn(AEROSPIKE_OK, r.err, PyList(Append(py_recs.items, r.obj)))
\* the tuple of an entry without a record: (key, None, None)
batch_key_only(k) ==
    ValReturn(k.err, IF k.obj = PyNULL \/ ~OK(k.err) THEN PyNULL
                     ELSE PyTuple(<<k.obj, Py_None, Py_None>>))
\* one entry of either batch converter (lines 1844-1873, 1894-1925)
batch_entry(e, entry, py_recs) ==
    batch_entry_done(IF entry.result = AEROSPIKE_OK
                     THEN record_to_pyobject(e, entry.record, entry.key)
                     ELSE batch_key_only(key_to_pyobject(e, entry.key)),
                     py_recs)
batch_results_next(b, results, i) ==
    IF b.obj = PyNULL THEN b ELSE batch_results_loop(b.err, results, i + 1, b.obj)
\* the loop of as_batch_read_results_to_pyobject (lines 1841-1875) from entry
\* i (counted from 1) on; results[i].key is a pointer, NullKey when null
batch_results_loop(e, results, i, temp_py_recs) ==
    IF i > Len(results) THEN BatchReturn(AEROSPIKE_OK, e, temp_py_recs)
    ELSE batch_results_next(batch_entry(e, results[i], temp_py_recs), results, i)

\* as_batch_read_results_to_pyobject (lines 1829-1880): err is not reset at
\* entry and the status returned after the loop is AEROSPIKE_OK
as_batch_read_results_to_pyobject(err_in, results) ==
    batch_results_loop(err_in, results, 1, PyList(<<>>))

RECURSIVE batch_records_loop(_, _, _, _)
batch_records_next(b, list, i) ==
    IF b.obj = PyNULL THEN b ELSE batch_records_loop(b.err, list, i + 1, b.obj)
\* the loop of batch_read_records_to_pyobject (lines 1891-1927) from entry i
\* on; the key of an entry is part of the entry, so &batch->key is not null
batch_records_loop(e, list, i, py_recs) ==
    IF i > Len(list) THEN BatchReturn(AEROSPIKE_OK, e, py_recs)
    ELSE batch_records_next(batch_entry(e, list[i], py_recs), list, i)

\* batch_read_records_to_pyobject (lines 1882-1929)
batch_read_records_to_pyobject(err_in, records) ==
    batch_records_loop(err_in, records, 1, PyList(<<>>))

----------------------------------------------------------------------------
(* Host objects to values of the driver *)

\* a host bool; PyBool_Type is a subclass of PyInt_Type
PyBool(b) == [t |-> "bool", b |-> b]
PyBool_Check(o) == o.t = "bool"
PyFloat_Check(o) == o.t = "float"
PyList_Check(o) == o.t = "list"
\* an instance of aerospike.null, of the CDT wildcard and of the CDT infinite
PyAerospikeNull == [t |-> "aerospike.null"]
PyCdtWildcard == [t |-> "aerospike.CDTWildcard"]
PyCdtInfinite == [t |-> "aerospike.CDTInfinite"]
PyGeospatial(geo_data) == [t |-> "Geospatial", geo_data |-> geo_data]

as_cmp_wildcard == [t |-> "AS_CMP_WILDCARD"]
as_cmp_inf == [t |-> "AS_CMP_INF"]

\* the client: strict_types is self->strict_types, has_geo is what
\* aerospike_has_geo(self->as) answers, serializer_ok whether the serializer
\* the policy selects can serialize the objects handed to it
AerospikeClient(strict_types, has_geo, serializer_ok) ==
    [strict_types |-> strict_types, has_geo |-> has_geo, serializer_ok |-> serializer_ok]

\* the pool of as_bytes of one call of the client (as_static_pool):
\* current_bytes_id counts the as_bytes handed out so far
as_static_pool(current_bytes_id) == [current_bytes_id |-> current_bytes_id]

\* the number of as_bytes a pool holds (conversions.h), kept small here so
\* that a pool runs out within the inputs
AS_STATIC_POOL_SIZE == 3

\* GET_BYTES_POOL (conversions.h): the next as_bytes of the pool, or *err
\* updated and no as_bytes when the pool has handed out all it holds.  The
\* macro does not return; bytes tells whether an as_bytes was handed out.
GET_BYTES_POOL(e, static_pool) ==
    IF static_pool.current_bytes_id < AS_STATIC_POOL_SIZE
    THEN [err |-> e, pool |-> as_static_pool(static_pool.current_bytes_id + 1), bytes |-> TRUE]
    ELSE [err |-> as_error_update(e, AEROSPIKE_ERR_CLIENT, "Unable to get bytes from pool"),
          pool |-> static_pool, bytes |-> FALSE]

\* what a conversion to the driver's values returns: *err, *val and the
\* pool as the call leaves it
WriteReturn(e, v, pool) == [err |-> e, val |-> v, pool |-> pool]

\* a list or map the call has destroyed, the pointer to it still set
AsDestroyed == [t |-> "DESTROYED"]

\* serialize_based_on_serializer_policy (serializer.c): the object is
\* written to the as_bytes, tagged as serialized, or the serializer fails
serialize_based_on_serializer_policy(e0, py_obj, self) ==
    IF self.serializer_ok
    THEN [err |-> e0, val |-> as_bytes_serialized(SmallSize(1), <<0>>, py_obj)]
    ELSE [err |-> as_error_update(e0, AEROSPIKE_ERR_CLIENT, "Unable to serialize"),
          val |-> NoValue]

\* GET_BYTES_POOL followed by the serializer under err->code == AEROSPIKE_OK
\* (lines 407-415, 452-460, 463-471, 497-505 and 760-768, 791-799, 828-836):
\* without an as_bytes *val stays null
val_serialized(e0, py_obj, self, static_pool) ==
    LET g == GET_BYTES_POOL(e0, static_pool)
        s == serialize_based_on_serializer_policy(g.err, py_obj, self)
    IN IF ~OK(g.err) THEN WriteReturn(g.err, NoValue, g.pool)
       ELSE WriteReturn(s.err, s.val, g.pool)

\* AerospikeGeospatial_DoDumps (geo.c) on the geo_data of a geospatial
\* object: its GeoJSON text
AerospikeGeospatial_DoDumps(py_obj) == py_obj.geo_data

\* PyInt_AsLong on an int or a bool: a Python 2 int is a C long
PyInt_AsLong(o) == IF o.t = "bool" THEN SmallInt(IF o.b THEN 1 ELSE 0) ELSE o.i

\* PyLong_AsLongLong and PyLong_AsLong on a long (a C long holds 64 bits):
\* the value, or -1 with OverflowError raised
PyLong_AsLongLong(o) == IF InInt64(o.n) THEN o.n ELSE SmallInt(-1)
\* the call raised OverflowError
PyLong_Overflows(o) == ~InInt64(o.n)

\* a host text with a NUL character in it: the characters a, NUL, b
TextWithNul == "a\\0b"
\* what a char * to the bytes of a host text denotes in C (strdup, strlen,
\* as_string_new, PyString_FromString): the bytes before the first NUL
CString(s) == IF s = TextWithNul THEN "a" ELSE s

\* as_map_set: the value of a key already in the map is replaced
as_map_set(pairs, k, v) ==
    IF \E i \in 1..Len(pairs) : pairs[i][1] = k
    THEN [i \in 1..Len(pairs) |-> IF pairs[i][1] = k THEN <<k, v>> ELSE pairs[i]]
    ELSE Append(pairs, <<k, v>>)

RECURSIVE PyDict_Next(_)
\* the keys of a host dictionary in the order PyDict_Next yields them
PyDict_Next(keys) ==
    IF keys = {} THEN <<>>
    ELSE LET k == CHOOSE k \in keys : TRUE IN <<k>> \o PyDict_Next(keys \ {k})

RECURSIVE pyobject_to_val(_, _, _, _)
RECURSIVE pyobject_to_list_each(_, _, _, _, _, _)
RECURSIVE pyobject_to_map_each(_, _, _, _, _, _, _)

\* an item of pyobject_to_list converted to r (lines 347-354): at the first
\* item that does not convert the list is destroyed
pyobject_to_list_item(r, items, i, list, self) ==
    IF ~OK(r.err) THEN WriteReturn(r.err, AsDestroyed, r.pool)
    ELSE pyobject_to_list_each(r.err, items, i + 1, Append(list, r.val), self, r.pool)

\* the loop of pyobject_to_list (lines 345-357) from item i on
pyobject_to_list_each(e, items, i, list, self, static_pool) ==
    IF i > Len(items) THEN WriteReturn(e, as_list(list), static_pool)
    ELSE pyobject_to_list_item(pyobject_to_val(e, items[i], self, static_pool),
                               items, i, list, self)

\* pyobject_to_list (lines 335-360) on a null *list
pyobject_to_list(err_in, py_list, self, static_pool) ==
    pyobject_to_list_each(as_error_reset(err_in), py_list.items, 1, <<>>, self, static_pool)

\* the value of a key of pyobject_to_map converted to v (lines 383-390)
pyobject_to_map_value(k, v, py_dict, keys, i, map, self) ==
    IF ~OK(v.err) THEN WriteReturn(v.err, AsDestroyed, v.pool)
    ELSE pyobject_to_map_each(v.err, py_dict, keys, i + 1, as_map_set(map, k.val, v.val),
                              self, v.pool)

\* a key of pyobject_to_map converted to k (lines 376-382)
pyobject_to_map_key(k, py_dict, keys, i, map, self) ==
    IF ~OK(k.err) THEN WriteReturn(k.err, AsDestroyed, k.pool)
    ELSE pyobject_to_map_value(k, pyobject_to_val(k.err, py_dict.d[keys[i]], self, k.pool),
                               py_dict, keys, i, map, self)

\* the loop of pyobject_to_map (lines 375-394) over the keys still to come
pyobject_to_map_each(e, py_dict, keys, i, map, self, static_pool) ==
    IF i > Len(keys) THEN WriteReturn(e, as_map(map), static_pool)
    ELSE pyobject_to_map_key(pyobject_to_val(e, keys[i], self, static_pool),
                             py_dict, keys, i, map, self)

\* pyobject_to_map (lines 362-397) on a null *map
pyobject_to_map(err_in, py_dict, self, static_pool) ==
    pyobject_to_map_each(as_error_reset(err_in), py_dict, PyDict_Next(DOMAIN py_dict.d),
                         1, <<>>, self, static_pool)

\* pyobject_to_val (lines 399-510).  The caller's *val is null before the
\* call; val is what the call leaves in it.
pyobject_to_val(err_in, py_obj, self, static_pool) ==
    LET e0 == as_error_reset(err_in)
        \* lines 475, 481: the list or map is stored only on success
        Stored(r) == WriteReturn(r.err, IF OK(r.err) THEN r.val ELSE NoValue, r.pool)
    IN  IF py_obj = PyNULL
        THEN WriteReturn(as_error_update(e0, AEROSPIKE_ERR_CLIENT, "value is null"), NoValue, static_pool)
        ELSE IF PyBool_Check(py_obj) THEN val_serialized(e0, py_obj, self, static_pool)
        ELSE IF PyInt_Check(py_obj) THEN WriteReturn(e0, as_integer(PyInt_AsLong(py_obj)), static_pool)
        ELSE IF PyLong_Check(py_obj)
        THEN IF PyLong_Overflows(py_obj)
             THEN WriteReturn(as_error_update(e0, AEROSPIKE_ERR_PARAM,
                                              "integer value exceeds sys.maxsize"), NoValue,
                              static_pool)
             ELSE WriteReturn(e0, as_integer(PyLong_AsLongLong(py_obj)), static_pool)
        ELSE IF PyUnicode_Check(py_obj) THEN WriteReturn(e0, as_string(<<CString(py_obj.u)>>, TRUE), static_pool)
        ELSE IF PyString_Check(py_obj) THEN WriteReturn(e0, as_string(<<CString(py_obj.s)>>, FALSE), static_pool)
        ELSE IF py_obj.t = "Geospatial"
        THEN IF self.has_geo
             THEN WriteReturn(e0, as_geojson(AerospikeGeospatial_DoDumps(py_obj)), static_pool)
             ELSE val_serialized(e0, PyStr(py_obj.geo_data), self, static_pool)
        ELSE IF PyByteArray_Check(py_obj) THEN val_serialized(e0, py_obj, self, static_pool)
        ELSE IF PyList_Check(py_obj) THEN Stored(pyobject_to_list(e0, py_obj, self, static_pool))
        ELSE IF PyDict_Check(py_obj) THEN Stored(pyobject_to_map(e0, py_obj, self, static_pool))
        ELSE IF py_obj = Py_None \/ py_obj = PyAerospikeNull THEN WriteReturn(e0, as_nil, static_pool)
        ELSE IF py_obj = PyCdtWildcard THEN WriteReturn(e0, as_cmp_wildcard, static_pool)
        ELSE IF py_obj = PyCdtInfinite THEN WriteReturn(e0, as_cmp_inf, static_pool)
        ELSE IF PyFloat_Check(py_obj) THEN WriteReturn(e0, as_double(py_obj.f), static_pool)
        ELSE val_serialized(e0, py_obj, self, static_pool)

\* as_bytes_new_wrap on the buffer of a byte array, the size cut to 32 bits
as_bytes_new_wrap(py_obj) == as_bytes_raw(ToUint32(py_obj.size), py_obj.data)

\* pyobject_to_astype_write (lines 754-841).  The caller's *val is null
\* before the call.  The result of PyLong_AsLongLong is stored as it is.
pyobject_to_astype_write(err_in, py_value, self, static_pool) ==
    LET e0 == as_error_reset(err_in)
        Stored(r) == WriteReturn(r.err, IF OK(r.err) THEN r.val ELSE NoValue, r.pool)
    IN  IF PyBool_Check(py_value) THEN val_serialized(e0, py_value, self, static_pool)
        ELSE IF PyInt_Check(py_value) THEN WriteReturn(e0, as_integer(PyInt_AsLong(py_value)), static_pool)
        ELSE IF PyLong_Check(py_value) THEN WriteReturn(e0, as_integer(PyLong_AsLongLong(py_value)), static_pool)
        ELSE IF PyUnicode_Check(py_value) THEN WriteReturn(e0, as_string(<<CString(py_value.u)>>, TRUE), static_pool)
        ELSE IF PyString_Check(py_value) THEN WriteReturn(e0, as_string(<<CString(py_value.s)>>, FALSE), static_pool)
        ELSE IF py_value.t = "Geospatial"
        THEN IF self.has_geo
             THEN WriteReturn(e0, as_geojson(AerospikeGeospatial_DoDumps(py_value)), static_pool)
             ELSE val_serialized(e0, PyStr(py_value.geo_data), self, static_pool)
        ELSE IF PyByteArray_Check(py_value) THEN WriteReturn(e0, as_bytes_new_wrap(py_value), static_pool)
        ELSE IF PyList_Check(py_value) THEN Stored(pyobject_to_list(e0, py_value, self, static_pool))
        ELSE IF PyDict_Check(py_value) THEN Stored(pyobject_to_map(e0, py_value, self, static_pool))
        ELSE IF py_value = PyAerospikeNull THEN WriteReturn(e0, as_nil, static_pool)
        ELSE IF py_value = PyCdtWildcard THEN WriteReturn(e0, as_cmp_wildcard, static_pool)
        ELSE IF py_value = PyCdtInfinite THEN WriteReturn(e0, as_cmp_inf, static_pool)
        ELSE IF PyFloat_Check(py_value) THEN WriteReturn(e0, as_double(py_value.f), static_pool)
        ELSE val_serialized(e0, py_value, self, static_pool)

----------------------------------------------------------------------------
(* Host dictionaries to records of the driver *)

AEROSPIKE_ERR_BIN_NAME == "AEROSPIKE_ERR_BIN_NAME"
AS_BIN_NAME_MAX_LEN == 14

\* as_record_init(rec, size): no bins, generation and ttl zero
as_record_init == as_record(EmptyKey, 0, SmallSize(0), <<>>)

\* the as_record_set_* calls of the driver: a name longer than the driver
\* stores is refused; the bin of that name is replaced or a bin appended.
\* driver_ok is whether the driver stores the bin otherwise.
as_record_set_ok(name, driver_ok) == driver_ok /\ Len(name) <= AS_BIN_NAME_MAX_LEN
as_record_set(rec, name, v) ==
    IF \E i \in 1..Len(rec.bins) : rec.bins[i].name = name
    THEN [rec EXCEPT !.bins = [i \in 1..Len(rec.bins) |->
                                  IF rec.bins[i].name = name THEN as_bin(name, v)
                                  ELSE rec.bins[i]]]
    ELSE [rec EXCEPT !.bins = Append(rec.bins, as_bin(name, v))]

\* (uint32_t) and (uint16_t) of a 64-bit integer
Int64ToUint32(x) == IF x.r >= 0 THEN Size(0, 0, x.r) ELSE Size(0, 1, (x.r + 2147483647) + 1)
Int64ToUint16(x) == x.r % 65536

\* what a step of pyobject_to_record ends with: exit is "return" when the
\* function returns on the spot, "break" when the loop over the bins is
\* left, "next" when the loop goes on
RecordStep(exit, e, rec) == [exit |-> exit, err |-> e, rec |-> rec]

\* a bin value for the serializer (lines 561-570, 607-616, 634-643,
\* 666-675): g is what GET_BYTES_POOL left.  Without an as_bytes nothing
\* is set and ret_val keeps what the bin before left in it; a failure of
\* the serializer is the return of the function.
record_bin_serialized(g, py_obj, self) ==
    LET s == serialize_based_on_serializer_policy(g.err, py_obj, self)
    IN IF ~OK(g.err) THEN [exit |-> "skip", err |-> g.err, pool |-> g.pool]
       ELSE IF ~OK(s.err) THEN [exit |-> "return", err |-> s.err, pool |-> g.pool]
       ELSE [exit |-> "set", err |-> s.err, val |-> s.val, pool |-> g.pool]
\* a bin value that is a list or a dictionary: its failure leaves the loop
record_bin_nested(r) ==
    IF ~OK(r.err) THEN [exit |-> "break", err |-> r.err, pool |-> r.pool]
    ELSE [exit |-> "set", err |-> r.err, val |-> r.val, pool |-> r.pool]

\* the value of one bin (lines 557-671): what is handed to as_record_set_*
\* in set, or the step the conversion ends with
record_bin_value(e, value, self, static_pool) ==
    LET Set(v) == [exit |-> "set", err |-> e, val |-> v, pool |-> static_pool]
        Return(code, message) ==
            [exit |-> "return", err |-> as_error_update(e, code, message), pool |-> static_pool]
        Serialized(o) == record_bin_serialized(GET_BYTES_POOL(e, static_pool), o, self)
    IN  IF value = PyNULL THEN Return(AEROSPIKE_ERR_CLIENT, "record is null")
        ELSE IF PyBool_Check(value) THEN Serialized(value)
        ELSE IF PyInt_Check(value) THEN Set(as_integer(PyInt_AsLong(value)))
        ELSE IF PyLong_Check(value)
        THEN IF PyLong_Overflows(value)
             THEN Return(AEROSPIKE_ERR_PARAM, "integer value exceeds sys.maxsize")
             ELSE Set(as_integer(PyLong_AsLongLong(value)))
        ELSE IF value.t = "Geospatial"
        THEN IF self.has_geo THEN Set(as_geojson(AerospikeGeospatial_DoDumps(value)))
             ELSE Serialized(PyStr(value.geo_data))
        ELSE IF PyUnicode_Check(value) THEN Set(as_string(<<CString(value.u)>>, TRUE))
        ELSE IF PyString_Check(value) THEN Set(as_string(<<CString(value.s)>>, FALSE))
        ELSE IF PyByteArray_Check(value) THEN Serialized(value)
        ELSE IF PyList_Check(value)
        THEN record_bin_nested(pyobject_to_list(e, value, self, static_pool))
        ELSE IF PyDict_Check(value)
        THEN record_bin_nested(pyobject_to_map(e, value, self, static_pool))
        ELSE IF value = PyAerospikeNull THEN Set(as_nil)
        ELSE IF PyFloat_Check(value) THEN Set(as_double(value.f))
        ELSE Serialized(value)

RECURSIVE record_bins_loop(_, _, _, _, _, _, _, _, _)
\* the bin of the i-th key after its value v was handed to as_record_set_*
\* or not (lines 673-686): ret_val is what the driver answered last
record_bin_set(v, ret_val, py_rec, keys, i, rec, name, self, driver_ok) ==
    IF self.strict_types /\ ~ret_val
    THEN RecordStep("return", as_error_update(v.err, AEROSPIKE_ERR_BIN_NAME,
                        "Unable to set key-value pair"), rec)
    ELSE record_bins_loop(v.err, py_rec, keys, i + 1,
                          IF v.exit = "set" /\ ret_val THEN as_record_set(rec, name, v.val)
                          ELSE rec,
                          self, driver_ok, ret_val, v.pool)

\* the bin of the i-th key once its value is converted to v; ret_val is
\* what the bins before left in the variable
record_bin_converted(v, py_rec, keys, i, rec, name, self, driver_ok, ret_val) ==
    IF v.exit \in {"return", "break"} THEN RecordStep(v.exit, v.err, rec)
    ELSE record_bin_set(v, IF v.exit = "set" THEN as_record_set_ok(name, driver_ok)
                           ELSE ret_val,
                        py_rec, keys, i, rec, name, self, driver_ok)

\* a slip: the length of the name is tested whatever the mode
record_bin_named_AlwaysChecked(e, py_rec, keys, i, rec, name, self, driver_ok, ret_val, static_pool) ==
    IF Len(name) > AS_BIN_NAME_MAX_LEN
    THEN RecordStep("return", as_error_update(e, AEROSPIKE_ERR_BIN_NAME,
                        "A bin name should not exceed 14 characters limit"), rec)
    ELSE record_bin_converted(record_bin_value(e, py_rec.d[keys[i]], self, static_pool),
                              py_rec, keys, i, rec, name, self, driver_ok, ret_val)

\* the bin of the i-th key once its name is known (lines 547-671)
record_bin_named(e, py_rec, keys, i, rec, name, self, driver_ok, ret_val, static_pool) ==
    IF self.strict_types /\ Len(name) > AS_BIN_NAME_MAX_LEN
    THEN RecordStep("return", as_error_update(e, AEROSPIKE_ERR_BIN_NAME,
                        "A bin name should not exceed 14 characters limit"), rec)
    ELSE record_bin_converted(record_bin_value(e, py_rec.d[keys[i]], self, static_pool),
                              py_rec, keys, i, rec, name, self, driver_ok, ret_val)

\* the loop over the bins of pyobject_to_record (lines 533-686) from the
\* i-th key PyDict_Next yields on
record_bins_loop(e, py_rec, keys, i, rec, self, driver_ok, ret_val, static_pool) ==
    IF i > Len(keys) THEN RecordStep("next", e, rec)
    ELSE IF ~(PyUnicode_Check(keys[i]) \/ PyString_Check(keys[i]))
    THEN RecordStep("return", as_error_update(e, AEROSPIKE_ERR_CLIENT,
                        "A bin name must be a string or unicode string."), rec)
    ELSE record_bin_named(e, py_rec, keys, i, rec, CString(PyString_AsString(keys[i])),
                          self, driver_ok, ret_val, static_pool)

\* the ttl of the metadata (lines 696-712)
record_meta_ttl(e, rec, py_ttl) ==
    IF py_ttl = PyNULL THEN [err |-> e, rec |-> rec]
    ELSE IF PyInt_Check(py_ttl)
    THEN [err |-> e, rec |-> [rec EXCEPT !.ttl = Int64ToUint32(PyInt_AsLong(py_ttl))]]
    ELSE IF PyLong_Check(py_ttl)
    THEN [err |-> IF PyLong_Overflows(py_ttl)
                  THEN as_error_update(e, AEROSPIKE_ERR_PARAM, "integer value exceeds sys.maxsize")
                  ELSE e,
          rec |-> [rec EXCEPT !.ttl = Int64ToUint32(PyLong_AsLongLong(py_ttl))]]
    ELSE [err |-> as_error_update(e, AEROSPIKE_ERR_PARAM, "TTL should be an int or long"),
          rec |-> rec]

\* the generation of the metadata (lines 714-730)
record_meta_gen(e, rec, py_gen) ==
    IF py_gen = PyNULL THEN [err |-> e, rec |-> rec]
    ELSE IF PyInt_Check(py_gen)
    THEN [err |-> e, rec |-> [rec EXCEPT !.gen = Int64ToUint16(PyInt_AsLong(py_gen))]]
    ELSE IF PyLong_Check(py_gen)
    THEN [err |-> IF PyLong_Overflows(py_gen)
                  THEN as_error_update(e, AEROSPIKE_ERR_PARAM, "integer value exceeds sys.maxsize")
                  ELSE e,
          rec |-> [rec EXCEPT !.gen = Int64ToUint16(PyLong_AsLongLong(py_gen))]]
    ELSE [err |-> as_error_update(e, AEROSPIKE_ERR_PARAM, "Generation should be an int or long"),
          rec |-> rec]

\* the metadata of pyobject_to_record (lines 688-733)
record_meta_dict(t, py_meta) == record_meta_gen(t.err, t.rec, PyDict_GetItemString(py_meta, "gen"))
record_meta(e, rec, py_meta) ==
    IF py_meta = PyNULL \/ py_meta = Py_None THEN [err |-> e, rec |-> rec]
    ELSE IF ~PyDict_Check(py_meta)
    THEN [err |-> as_error_update(e, AEROSPIKE_ERR_PARAM, "meta must be a dictionary"), rec |-> rec]
    ELSE record_meta_dict(record_meta_ttl(e, rec, PyDict_GetItemString(py_meta, "ttl")), py_meta)

\* what pyobject_to_record returns: *err, the caller's record, and the calls
\* of as_record_init and as_record_destroy made on it, in order
RecordReturn(e, rec, calls) == [err |-> e, rec |-> rec, calls |-> calls]

\* the end of pyobject_to_record (lines 736-747) with *err and the record
\* as m holds them: the record of a failed call is destroyed
record_end(m) ==
    IF ~OK(m.err)
    THEN RecordReturn(m.err, AsDestroyed, <<"as_record_init", "as_record_destroy">>)
    ELSE RecordReturn(m.err, m.rec, <<"as_record_init">>)

\* pyobject_to_record after the loop over the bins ended with b: a return
\* inside the loop is the return of the function
record_after_bins(b, py_meta) ==
    IF b.exit = "return" THEN RecordReturn(b.err, b.rec, <<"as_record_init">>)
    ELSE record_end(record_meta(b.err, b.rec, py_meta))

\* pyobject_to_record (lines 516-748).  rec_in is the caller's record
\* before the call; ret_val starts at 0.
pyobject_to_record(err_in, py_rec, py_meta, rec_in, self, driver_ok, static_pool) ==
    IF py_rec = PyNULL
    THEN RecordReturn(as_error_update(as_error_reset(err_in), AEROSPIKE_ERR_CLIENT,
                                      "record is null"), rec_in, <<>>)
    ELSE IF PyDict_Check(py_rec)
    THEN record_after_bins(record_bins_loop(as_error_reset(err_in), py_rec,
                                            PyDict_Next(DOMAIN py_rec.d), 1,
                                            as_record_init, self, driver_ok, FALSE,
                                            static_pool),
                           py_meta)
    ELSE RecordReturn(as_error_update(as_error_reset(err_in), AEROSPIKE_ERR_PARAM,
                          "Record should be passed as bin-value pair"), rec_in, <<>>)

----------------------------------------------------------------------------
(* The bin of an operation under strict types *)

\* (int) of a C long: the low 32 bits, read as a signed number.  The pieces
\* above 2^32 of q * 2^63 + r are all in q * 2^63.
LongToInt(x) == SmallInt(x.r)

\* (int64_t) of a double and back: the fraction is dropped
DoubleTruncated(f) == IF f = "1.5" THEN "1.0" ELSE f

\* an as_bytes taken from the pool that nothing was written to
UninitBytes == [t |-> "AS_BYTES", btype |-> "UNINITIALIZED"]

\* what initialize_bin_for_strictypes leaves behind: *err and the bin of
\* the operation, valuep what binop_bin->valuep points to
BinopReturn(e, name, valuep) == [err |-> e, bin |-> [name |-> name, valuep |-> valuep]]

\* the bin points to the list or map, destroyed or not
BinopOf(r, bin) == BinopReturn(r.err, bin, r.val)

\* GET_BYTES_POOL followed by the serializer (lines 1694-1697, 1705-1708,
\* 1712-1715): neither is tested.  Without an as_bytes the serializer is
\* handed a pointer nothing was assigned to, and so is the bin.
bin_serialized(e, py_obj, self, static_pool) ==
    LET g == GET_BYTES_POOL(e, static_pool)
        s == serialize_based_on_serializer_policy(g.err, py_obj, self)
    IN IF ~g.bytes THEN [err |-> g.err, val |-> UninitBytes]
       ELSE [err |-> s.err, val |-> IF OK(s.err) THEN s.val ELSE UninitBytes]

\* initialize_bin_for_strictypes (lines 1652-1720); err is not reset.  The
\* as_string of a unicode points into the UTF-8 bytes object released at
\* line 1672: freed_text is what is read there afterwards.
initialize_bin_for_strictypes(err_in, py_value, bin, self, freed_text, static_pool) ==
    LET Serialized(o) == BinopOf(bin_serialized(err_in, o, self, static_pool), bin)
        \* as_bytes_init_wrap(.., bytes->value, bytes->size, true) at line 1709
        Wrapped(r) == BinopReturn(r.err, bin,
                                  IF r.val = UninitBytes THEN UninitBytes
                                  ELSE as_bytes_raw(r.val.size, r.val.data))
    IN  IF PyInt_Check(py_value)
        THEN BinopReturn(err_in, bin, as_integer(LongToInt(PyInt_AsLong(py_value))))
        ELSE IF PyLong_Check(py_value)
        THEN BinopReturn(err_in, bin, as_integer(PyLong_AsLongLong(py_value)))
        ELSE IF PyString_Check(py_value)
        THEN BinopReturn(err_in, bin, as_string(<<CString(py_value.s)>>, FALSE))
        ELSE IF PyUnicode_Check(py_value)
        THEN BinopReturn(err_in, bin, as_string(<<freed_text>>, FALSE))
        ELSE IF PyFloat_Check(py_value)
        THEN BinopReturn(err_in, bin, as_double(DoubleTruncated(py_value.f)))
        ELSE IF PyList_Check(py_value)
        THEN BinopOf(pyobject_to_list(err_in, py_value, self, static_pool), bin)
        ELSE IF PyDict_Check(py_value)
        THEN BinopOf(pyobject_to_map(err_in, py_value, self, static_pool), bin)
        ELSE IF py_value.t = "Geospatial"
        THEN IF self.has_geo
             THEN BinopReturn(err_in, bin, as_geojson(AerospikeGeospatial_DoDumps(py_value)))
             ELSE Serialized(PyStr(py_value.geo_data))
        ELSE IF py_value = PyAerospikeNull THEN BinopReturn(err_in, bin, as_nil)
        ELSE IF PyByteArray_Check(py_value)
        THEN Wrapped(bin_serialized(err_in, py_value, self, static_pool))
        ELSE Serialized(py_value)

----------------------------------------------------------------------------
(* The context of a CDT operation *)

\* the kinds of a step of a context, as the driver numbers them
AS_CDT_CTX_LIST_INDEX == 16
AS_CDT_CTX_LIST_RANK == 17
AS_CDT_CTX_LIST_VALUE == 19
AS_CDT_CTX_MAP_INDEX == 32
AS_CDT_CTX_MAP_RANK == 33
AS_CDT_CTX_MAP_KEY == 34
AS_CDT_CTX_MAP_VALUE == 35

\* requires_int (lines 2055-2062)
requires_int(op) ==
    \/ op = SmallInt(AS_CDT_CTX_LIST_INDEX)
    \/ op = SmallInt(AS_CDT_CTX_LIST_RANK)
    \/ op = SmallInt(AS_CDT_CTX_MAP_INDEX)
    \/ op = SmallInt(AS_CDT_CTX_MAP_RANK)

\* a step of aerospike_helpers.cdt_ctx: an object with the attributes id and
\* value
CdtCtxStep(id, value) == [t |-> "_cdt_ctx", id |-> id, value |-> value]

\* PyObject_GetAttrString: the attribute, or null with AttributeError raised.
\* Of the host objects of the model only the steps have attributes of the
\* names asked for.
PyObject_GetAttrString(o, name) == IF name \in DOMAIN o THEN o[name] ELSE PyNULL

\* PyLong_AsUnsignedLong raises: the object is no integer, or is negative,
\* or does not fit 64 bits
PyLong_AsUnsignedLong_Raises(o) ==
    \/ ~(PyInt_Check(o) \/ PyLong_Check(o))
    \/ PyInt_Check(o) /\ PyInt_AsLong(o).q = 0 /\ PyInt_AsLong(o).r < 0
    \/ PyLong_Check(o) /\ (\/ o.n.q < 0 \/ (o.n.q = 0 /\ o.n.r < 0)
                           \/ o.n.q > 2 \/ (o.n.q = 2 /\ o.n.r >= 0))
PyLong_AsUnsignedLong(o) == IF PyInt_Check(o) THEN PyInt_AsLong(o) ELSE o.n

\* PyLong_AsLong on any object.  An int gives its value, a long its value
\* if it fits a C long; an object of another type is first converted by its
\* nb_int slot, which a float has (the fraction is dropped) and a str, a
\* unicode, None, a list and a dictionary have not.
FloatToInteger(f) == IF f = "1.5" THEN SmallInt(1) ELSE SmallInt(0)
PyLong_AsLong_Raises(o) ==
    IF PyInt_Check(o) THEN FALSE
    ELSE IF PyLong_Check(o) THEN PyLong_Overflows(o)
    ELSE ~PyFloat_Check(o)
PyLong_AsLong(o) ==
    IF PyInt_Check(o) THEN PyInt_AsLong(o)
    ELSE IF PyLong_Check(o) THEN PyLong_AsLongLong(o)
    ELSE IF PyFloat_Check(o) THEN FloatToInteger(o.f)
    ELSE SmallInt(-1)

\* the caller's as_cdt_ctx before as_cdt_ctx_init, after it, and after
\* as_cdt_ctx_destroy
UninitCtx == [t |-> "uninit"]
as_cdt_ctx(items) == [t |-> "as_cdt_ctx", items |-> items]
\* as_cdt_ctx_init(cdt_ctx, size): room for the steps of the list, none added
as_cdt_ctx_init(py_ctx) == as_cdt_ctx(<<>>)
DestroyedCtx == [t |-> "destroyed"]
\* as_cdt_ctx_add_*: the step is appended, the context owns its value
as_cdt_ctx_add(ctx, type, v) == as_cdt_ctx(Append(ctx.items, [type |-> type, val |-> v]))

\* the status of a call that did not return
NoReturn == "NO_RETURN"

\* what get_cdt_ctx returns: the status, *err, the caller's context and
\* *ctx_in_use, the calls of as_cdt_ctx_init and as_cdt_ctx_destroy made on
\* the context, and the converted values that neither the context owns nor
\* anything released
CtxReturn(status, e, ctx, ctx_in_use, calls, held) ==
    [ret |-> status, err |-> e, ctx |-> ctx, ctx_in_use |-> ctx_in_use, calls |-> calls,
     held |-> held]
CtxFailure(e, message, ctx, calls, held) ==
    CtxReturn(AEROSPIKE_ERR_PARAM, as_error_update(e, AEROSPIKE_ERR_PARAM, message),
              ctx, TRUE, calls, held)

RECURSIVE get_cdt_ctx_loop(_, _, _, _, _, _)
\* a failure of get_cdt_ctx that destroys the context first
CtxDestroyed(e, message, held) ==
    CtxFailure(e, message, DestroyedCtx, <<"as_cdt_ctx_init", "as_cdt_ctx_destroy">>, held)

\* a step of a value kind whose payload pyobject_to_val converted to r
\* (lines 2024-2040): a failure of the conversion returns on the spot
get_cdt_ctx_value(r, item_type, py_ctx, i, ctx, self) ==
    IF ~OK(r.err)
    THEN CtxFailure(r.err, "Failed to convert ctx", ctx, <<"as_cdt_ctx_init">>, <<>>)
    ELSE IF item_type \in {SmallInt(AS_CDT_CTX_LIST_VALUE), SmallInt(AS_CDT_CTX_MAP_KEY),
                           SmallInt(AS_CDT_CTX_MAP_VALUE)}
    THEN get_cdt_ctx_loop(r.err, py_ctx, i + 1, as_cdt_ctx_add(ctx, item_type, r.val), self,
                          r.pool)
    ELSE CtxDestroyed(r.err, "Failed to convert, unknown ctx operation ctx", <<r.val>>)

\* a step whose attributes are id_temp and value_temp (lines 1993-2041)
get_cdt_ctx_step(e, id_temp, value_temp, py_ctx, i, ctx, self, static_pool) ==
    IF id_temp = PyNULL \/ value_temp = PyNULL \/ PyLong_AsUnsignedLong_Raises(id_temp)
    THEN CtxDestroyed(e, "Failed to convert ctx", <<>>)
    ELSE IF requires_int(PyLong_AsUnsignedLong(id_temp))
    THEN IF PyLong_AsLong_Raises(value_temp)
         THEN CtxDestroyed(e, "Failed to convert ctx", <<>>)
         ELSE get_cdt_ctx_loop(e, py_ctx, i + 1,
                               as_cdt_ctx_add(ctx, PyLong_AsUnsignedLong(id_temp),
                                              LongToInt(PyLong_AsLong(value_temp))), self,
                               static_pool)
    ELSE get_cdt_ctx_value(pyobject_to_val(e, value_temp, self, static_pool),
                           PyLong_AsUnsignedLong(id_temp), py_ctx, i, ctx, self)

\* the loop of get_cdt_ctx (lines 1978-2045) from step i on
get_cdt_ctx_loop(e, py_ctx, i, ctx, self, static_pool) ==
    IF i > Len(py_ctx.items) THEN CtxReturn(AEROSPIKE_OK, e, ctx, TRUE, <<"as_cdt_ctx_init">>, <<>>)
    ELSE get_cdt_ctx_step(e, PyObject_GetAttrString(py_ctx.items[i], "id"),
                          PyObject_GetAttrString(py_ctx.items[i], "value"),
                          py_ctx, i, ctx, self, static_pool)

\* get_cdt_ctx (lines 1962-2053); err is not reset.  ctx_in and in_use_in
\* are the caller's context and flag before the call.  A context that is
\* no list is destroyed without having been initialized: as_cdt_ctx_destroy
\* walks whatever the memory holds, which is an empty list of steps when
\* wild is FALSE and makes the process fault when it is TRUE.
get_cdt_ctx(err_in, op_dict, ctx_in, in_use_in, self, wild, static_pool) ==
    LET py_ctx == PyDict_GetItemString(op_dict, "ctx")
    IN  IF py_ctx = PyNULL THEN CtxReturn(AEROSPIKE_OK, err_in, ctx_in, in_use_in, <<>>, <<>>)
        ELSE IF PyList_Check(py_ctx)
        THEN get_cdt_ctx_loop(err_in, py_ctx, 1, as_cdt_ctx_init(py_ctx), self, static_pool)
        ELSE IF wild
        THEN CtxReturn(NoReturn, err_in, ctx_in, TRUE, <<"as_cdt_ctx_destroy">>, <<>>)
        ELSE CtxFailure(err_in, "Failed to convert ctx", DestroyedCtx,
                        <<"as_cdt_ctx_destroy">>, <<>>)

\* what pyobject_to_index returns: *err and the caller's *long_val
IndexReturn(e, long_val) == [err |-> e, long_val |-> long_val]

\* pyobject_to_index (lines 1812-1827): no reset of err at entry; a long
\* past the C long gives -1, and the failure only in strict mode; the
\* status returned is err->code
pyobject_to_index(err_in, py_value, self, long_in) ==
    IF PyInt_Check(py_value) THEN IndexReturn(err_in, PyInt_AsLong(py_value))
    ELSE IF PyLong_Check(py_value)
    THEN IF PyLong_Overflows(py_value) /\ self.strict_types
         THEN IndexReturn(as_error_update(err_in, AEROSPIKE_ERR_PARAM,
                                          "integer value exceeds sys.maxsize"), SmallInt(-1))
         ELSE IndexReturn(err_in, PyLong_AsLongLong(py_value))
    ELSE IndexReturn(as_error_update(err_in, AEROSPIKE_ERR_PARAM,
                                     "Offset should be of int or long type"), long_in)

\* the ttl and the generation of an as_operations
as_operations(ttl, gen) == [ttl |-> ttl, gen |-> gen]

\* what check_for_meta returns: *err and the caller's as_operations
OpsReturn(e, ops) == [err |-> e, ops |-> ops]

\* the long a host integer is read as (lines 1778-1781, 1792-1795):
\* PyInt_AsLong for an int, PyLong_AsLongLong for a long
MetaAsLong(o) == IF PyInt_Check(o) THEN PyInt_AsLong(o) ELSE PyLong_AsLongLong(o)

\* the generation of check_for_meta (lines 1791-1804): the value is cast to
\* uint16_t; the failure is reported only when the cast gives 65535 and a
\* host exception is pending, which is the case of a long past 64 bits
check_for_meta_gen(r, py_gen) ==
    IF ~OK(r.err) \/ py_gen = PyNULL THEN r
    ELSE IF ~(PyInt_Check(py_gen) \/ PyLong_Check(py_gen))
    THEN OpsReturn(as_error_update(r.err, AEROSPIKE_ERR_PARAM,
                                   "Generation should be an int or long"), r.ops)
    ELSE IF PyLong_Check(py_gen) /\ PyLong_Overflows(py_gen)
    THEN OpsReturn(as_error_update(r.err, AEROSPIKE_ERR_PARAM,
                                   "integer value for gen exceeds sys.maxsize"), r.ops)
    ELSE OpsReturn(r.err, [r.ops EXCEPT !.gen = Int64ToUint16(MetaAsLong(py_gen))])

\* the ttl of check_for_meta (lines 1776-1789): the value is cast to
\* uint32_t
check_for_meta_ttl(e, ops, py_ttl) ==
    IF py_ttl = PyNULL THEN OpsReturn(e, ops)
    ELSE IF ~(PyInt_Check(py_ttl) \/ PyLong_Check(py_ttl))
    THEN OpsReturn(as_error_update(e, AEROSPIKE_ERR_PARAM, "Ttl should be an int or long"), ops)
    ELSE IF PyLong_Check(py_ttl) /\ PyLong_Overflows(py_ttl)
    THEN OpsReturn(as_error_update(e, AEROSPIKE_ERR_PARAM,
                                   "integer value for ttl exceeds sys.maxsize"), ops)
    ELSE OpsReturn(e, [ops EXCEPT !.ttl = Int64ToUint32(MetaAsLong(py_ttl))])

\* check_for_meta (lines 1768-1809): *err is reset at entry; the ttl is
\* handled before the generation, and a failure returns at once
check_for_meta(py_meta, ops, err_in) ==
    IF py_meta # PyNULL /\ PyDict_Check(py_meta)
    THEN check_for_meta_gen(check_for_meta_ttl(as_error_reset(err_in), ops,
                                               PyDict_GetItemString(py_meta, "ttl")),
                            PyDict_GetItemString(py_meta, "gen"))
    ELSE IF py_meta # PyNULL /\ py_meta # Py_None
    THEN OpsReturn(as_error_update(as_error_reset(err_in), AEROSPIKE_ERR_PARAM,
                                   "Metadata should be of type dictionary"), ops)
    ELSE OpsReturn(as_error_reset(err_in), ops)

\* what bin_strict_type_checking returns: *err, the caller's char *bin, and
\* whether a host exception was set (lines 1745-1751)
BinNameReturn(e, bin) == [err |-> e, bin |-> bin, raised |-> ~OK(e)]

\* strlen of the buffer of a bytearray: the bytes before the first zero
StrlenOfBytes(data) ==
    IF \E i \in 1..Len(data) : data[i] = 0
    THEN (CHOOSE i \in 1..Len(data) : data[i] = 0 /\ \A j \in 1..(i - 1) : data[j] # 0) - 1
    ELSE Len(data)

\* the length test of bin_strict_type_checking (lines 1737-1741): only in
\* strict mode; *bin is set by then
bin_name_checked(self, e, bin, len) ==
    IF self.strict_types /\ len > AS_BIN_NAME_MAX_LEN
    THEN BinNameReturn(as_error_update(e, AEROSPIKE_ERR_BIN_NAME,
                                       "A bin name should not exceed 14 characters limit"), bin)
    ELSE BinNameReturn(e, bin)

\* bin_strict_type_checking (lines 1723-1753): *err is reset at entry; the
\* name is a str or a bytearray, a unicode is refused
bin_strict_type_checking(self, err_in, py_bin, bin_in) ==
    IF py_bin = PyNULL THEN BinNameReturn(as_error_reset(err_in), bin_in)
    ELSE IF PyString_Check(py_bin)
    THEN bin_name_checked(self, as_error_reset(err_in), CString(PyString_AsString(py_bin)),
                          Len(CString(PyString_AsString(py_bin))))
    ELSE IF PyByteArray_Check(py_bin)
    THEN bin_name_checked(self, as_error_reset(err_in), py_bin.data, StrlenOfBytes(py_bin.data))
    ELSE BinNameReturn(as_error_update(as_error_reset(err_in), AEROSPIKE_ERR_PARAM,
                                       "Bin name should be of type string"), bin_in)

----------------------------------------------------------------------------
(* The inputs the calls are applied to *)

\* bytes i of a digest or byte array: the first n multiples of seed, as bytes
Bytes(n, seed) == [i \in 1..n |-> (seed * i) % 256]

NsObjs == {Py_None, PyStr(""), PyStr("test"), PyUnicode("test"), PyInt(SmallInt(1))}
SetObjs == {Py_None, PyStr(""), PyStr("demo"), PyUnicode("demo"), PyInt(SmallInt(1))}
KeyObjs == {Py_None, PyStr("k"), PyUnicode("k"), PyInt(SmallInt(5)),
            PyLong(SmallInt(-1)), PyLong(BigInt(1, 0)), PyLong(BigInt(-1, 0)),
            PyByteArray(SmallSize(0), <<>>), PyByteArray(SmallSize(2), Bytes(2, 9)),
            PyByteArray(Size(1, 0, 0), Bytes(2, 9)), PyFloat("1.5")}
DigestObjs == {Py_None,
               PyByteArray(SmallSize(20), Bytes(20, 3)),
               PyByteArray(SmallSize(20), Bytes(20, 7)),
               PyByteArray(SmallSize(19), Bytes(19, 3)),
               PyByteArray(SmallSize(21), Bytes(21, 3)),
               PyByteArray(SmallSize(0), <<>>),
               PyByteArray(Size(1, 0, 20), Bytes(20, 3)),
               PyByteArray(Size(0, 1, 20), Bytes(20, 3)),
               PyStr("01234567890123456789")}

\* a dictionary holding the slots that are not PyNULL
KeyDict(ns, set, k, digest) ==
    LET slots == (IF ns = PyNULL THEN {} ELSE {PyStr("ns")})
                 \cup (IF set = PyNULL THEN {} ELSE {PyStr("set")})
                 \cup (IF k = PyNULL THEN {} ELSE {PyStr("key")})
                 \cup (IF digest = PyNULL THEN {} ELSE {PyStr("digest")})
    IN PyDict([x \in slots |-> CASE x = PyStr("ns") -> ns [] x = PyStr("set") -> set
                                 [] x = PyStr("key") -> k [] x = PyStr("digest") -> digest])

KeyInputs ==
    {PyNULL, PyList(<<PyStr("test"), PyStr("demo"), PyInt(SmallInt(5))>>),
     PyTuple(<<PyStr("test"), PyStr("demo")>>),
     PyTuple(<<PyStr("test"), PyStr("demo"), PyInt(SmallInt(5)), Py_None, Py_None>>)}
    \cup {PyTuple(<<ns, set, k>>) : ns \in NsObjs, set \in SetObjs, k \in KeyObjs}
    \cup {PyTuple(<<ns, set, k, d>>) : ns \in NsObjs, set \in SetObjs, k \in KeyObjs, d \in DigestObjs}
    \cup {KeyDict(ns, set, k, d) : ns \in NsObjs \cup {PyNULL}, set \in SetObjs \cup {PyNULL},
                                   k \in KeyObjs \cup {PyNULL}, d \in DigestObjs \cup {PyNULL}}

\* the digests the driver computes for keys built from a user-key
DriverDigests == {Bytes(20, 11), Bytes(20, 13)}

MaxBins == 3
BinNames == {"b", "c"}
BinValues == {as_integer(SmallInt(5)), as_integer(SmallInt(6)),
              as_list(<<as_integer(SmallInt(3)), as_integer(SmallInt(4)), as_integer(SmallInt(5))>>),
              as_list(<<as_string(<<"k">>, TRUE), as_integer(SmallInt(1))>>),
              as_undef}
Bins == {as_bin(n, v) : n \in BinNames, v \in BinValues}
BinSeqs == UNION {[1..n -> Bins] : n \in 0..MaxBins}
RecordKeys == {EmptyKey,
               [as_key_init_int64("test", <<"demo">>, SmallInt(5)) EXCEPT
                    !.digest = [init |-> TRUE, value |-> Bytes(20, 11)]]}
Records == {as_record(k, 2, 100, bins) : k \in RecordKeys, bins \in BinSeqs}

\* the batches: up to MaxBatch entries, each found or not found, under one
\* of two keys or (where the key is a pointer) under no key, with a record
\* that converts, a record without bins, or a record holding a bin of a
\* type do_val_to_pyobject does not know
MaxBatch == 2
BatchKeys == {[as_key_init_int64("test", <<"demo">>, SmallInt(5)) EXCEPT
                   !.digest = [init |-> TRUE, value |-> Bytes(20, 11)]],
              as_key_init_digest("test", <<>>, Bytes(20, 13))}
BatchRecords == {as_record(EmptyKey, 2, 100, <<as_bin("b", as_integer(SmallInt(5)))>>),
                 as_record(EmptyKey, 3, 0, <<>>),
                 as_record(EmptyKey, 2, 100, <<as_bin("b", as_undef)>>)}
BatchEntries(keys) ==
    {as_batch_read(st, k, rec) : st \in {AEROSPIKE_OK, AEROSPIKE_ERR_RECORD_NOT_FOUND},
                                 k \in keys, rec \in BatchRecords}
Batches(keys) == UNION {[1..n -> BatchEntries(keys)] : n \in 0..MaxBatch}

\* the values do_val_to_pyobject is applied to: scalars (a string with text,
\* an empty string, a string whose char * is null), and lists of up to
\* MaxItems elements, a nested list and a value of unknown type among them
MaxItems == 4
ReadScalars == {as_integer(SmallInt(3)), as_string(<<"k">>, TRUE), as_string(<<"">>, TRUE),
                as_string(<<>>, FALSE), as_nil, as_undef}
ReadElems == {as_integer(SmallInt(3)), as_string(<<"k">>, TRUE), as_string(<<>>, FALSE),
              as_list(<<as_integer(SmallInt(1)), as_integer(SmallInt(2))>>), as_undef}
\* values with lists inside: a list of a list of odd and a list of even
\* length, maps with a list of even and of odd length, a list of a map and
\* an integer, a record with a bin that is a list of even length
ReadNested ==
    {as_list(<<as_list(<<as_integer(SmallInt(3))>>),
               as_list(<<as_integer(SmallInt(1)), as_integer(SmallInt(2))>>)>>),
     as_map(<< <<as_string(<<"k">>, TRUE),
                 as_list(<<as_integer(SmallInt(1)), as_integer(SmallInt(2))>>)>> >>),
     as_map(<< <<as_integer(SmallInt(3)), as_list(<<as_integer(SmallInt(3))>>)>> >>),
     as_list(<<as_map(<< <<as_string(<<"k">>, TRUE), as_list(<<as_integer(SmallInt(3))>>)>> >>),
               as_integer(SmallInt(3))>>),
     as_record(EmptyKey, 2, 100,
               <<as_bin("b", as_list(<<as_integer(SmallInt(1)), as_integer(SmallInt(2))>>))>>)}
ReadValues ==
    ReadScalars \cup ReadNested
    \cup {as_list(items) : items \in UNION {[1..n -> ReadElems] : n \in 0..MaxItems}}

\* the pool at the call: nothing handed out yet, one as_bytes left, none left
Pools == {as_static_pool(0), as_static_pool(AS_STATIC_POOL_SIZE - 1),
          as_static_pool(AS_STATIC_POOL_SIZE)}

\* The clients the conversions to the driver's values are called for
Clients == {AerospikeClient(FALSE, TRUE, TRUE), AerospikeClient(TRUE, TRUE, TRUE),
            AerospikeClient(FALSE, FALSE, TRUE), AerospikeClient(FALSE, TRUE, FALSE)}

\* Host objects handed to the conversions to the driver's values: integers
\* at the ends of the 64-bit range and past them, texts, bools, a float, a
\* byte array, the markers, and lists and dictionaries of them, nested
WriteIntegers == {PyInt(SmallInt(5)), PyInt(SmallInt(-1)), PyInt(BigInt(1, -1)),
                  PyLong(SmallInt(-1)), PyLong(SmallInt(7)), PyLong(BigInt(-1, 0)),
                  PyLong(BigInt(1, 0)), PyLong(BigInt(-1, -1))}
WriteTexts == {PyStr("a"), PyStr(""), PyUnicode("b"), PyStr(TextWithNul)}
WriteScalars ==
    WriteIntegers \cup WriteTexts \cup
    {PyBool(TRUE), PyBool(FALSE), PyFloat("1.5"), Py_None, PyAerospikeNull, PyCdtWildcard,
     PyCdtInfinite, PyGeospatial("{}"), PyByteArray(SmallSize(2), Bytes(2, 9))}
WriteElems == {PyInt(SmallInt(5)), PyLong(BigInt(1, 0)), PyStr("a"), PyUnicode("b"),
               PyBool(TRUE), PyList(<<PyLong(SmallInt(7)), PyStr("")>>)}
WriteKeys == {PyInt(SmallInt(5)), PyStr("a"), PyUnicode("b"), PyBool(TRUE)}
WriteDictValues == {PyInt(SmallInt(-1)), PyLong(BigInt(1, 0)), PyStr("a"),
                    PyList(<<PyInt(SmallInt(5))>>)}
WriteLists == {PyList(items) : items \in UNION {[1..n -> WriteElems] : n \in 0..2}}
WriteDicts ==
    {PyDict(d) : d \in UNION {[keys -> WriteDictValues] :
                              keys \in {ks \in SUBSET WriteKeys : Cardinality(ks) <= 2}}}
WriteNested == {PyList(<<PyDict([k \in {PyStr("a")} |-> PyList(<<PyInt(SmallInt(5)), PyStr("a")>>)]),
                         PyInt(SmallInt(-1))>>),
                PyDict([k \in {PyInt(SmallInt(5))} |->
                           PyDict([j \in {PyUnicode("b")} |-> PyLong(SmallInt(7))])])}
WriteValues == WriteScalars \cup WriteLists \cup WriteDicts \cup WriteNested

\* Host dictionaries handed to pyobject_to_record: at most two bins, a name
\* that is no text and one of 15 characters among the names, an integer past
\* the 64-bit range, a bool, a list that does not convert and one that does
\* among the values
RecordBinNames == {PyStr("b"), PyUnicode("c"), PyInt(SmallInt(5)), PyStr("abcdefghijklmno")}
RecordBinValues == {PyInt(SmallInt(5)), PyLong(SmallInt(-1)), PyLong(BigInt(1, 0)), PyBool(TRUE),
                    PyStr("a"), PyList(<<PyInt(SmallInt(5)), PyLong(BigInt(1, 0))>>),
                    PyList(<<PyInt(SmallInt(5))>>)}
HostRecords ==
    {PyInt(SmallInt(5))} \cup
    {PyDict(d) : d \in UNION {[names -> RecordBinValues] :
                              names \in {ns \in SUBSET RecordBinNames : Cardinality(ns) <= 2}}}
\* the metadata: none, None, a ttl and a generation, something that is no
\* dictionary, a ttl that is no integer, a generation past the 64-bit range,
\* a negative ttl, a generation past 16 bits, the least ttl with the
\* greatest generation
HostMetas == {PyNULL, Py_None,
              PyDict([k \in {PyStr("ttl"), PyStr("gen")} |->
                         IF k = PyStr("ttl") THEN PyInt(SmallInt(100)) ELSE PyLong(SmallInt(2))]),
              PyInt(SmallInt(5)),
              PyDict([k \in {PyStr("ttl")} |-> PyStr("a")]),
              PyDict([k \in {PyStr("gen")} |-> PyLong(BigInt(1, 0))]),
              PyDict([k \in {PyStr("ttl")} |-> PyInt(SmallInt(-1))]),
              PyDict([k \in {PyStr("gen")} |-> PyInt(SmallInt(65538))]),
              PyDict([k \in {PyStr("ttl"), PyStr("gen")} |->
                         IF k = PyStr("ttl") THEN PyLong(SmallInt(0)) ELSE PyInt(SmallInt(65535))])}

\* The contexts handed to get_cdt_ctx: lists of up to MaxSteps steps, of
\* every kind with an integer payload, of the four integer kinds with a
\* float, a text, None and an integer past the 64-bit range, of the three
\* value kinds with payloads that convert and one that does not, of an
\* unknown kind, and objects that are no steps
MaxSteps == 2
UnknownCtxKind == 0
CtxKinds == {AS_CDT_CTX_LIST_INDEX, AS_CDT_CTX_LIST_RANK, AS_CDT_CTX_LIST_VALUE,
             AS_CDT_CTX_MAP_INDEX, AS_CDT_CTX_MAP_RANK, AS_CDT_CTX_MAP_KEY,
             AS_CDT_CTX_MAP_VALUE}
CtxSteps ==
    {CdtCtxStep(PyInt(SmallInt(k)), PyInt(SmallInt(2))) : k \in CtxKinds \cup {UnknownCtxKind}}
    \cup {CdtCtxStep(PyInt(SmallInt(AS_CDT_CTX_LIST_INDEX)), PyFloat("1.5")),
          CdtCtxStep(PyInt(SmallInt(AS_CDT_CTX_LIST_RANK)), PyStr("a")),
          CdtCtxStep(PyInt(SmallInt(AS_CDT_CTX_MAP_INDEX)), Py_None),
          CdtCtxStep(PyInt(SmallInt(AS_CDT_CTX_MAP_RANK)), PyLong(BigInt(1, 0))),
          CdtCtxStep(PyInt(SmallInt(AS_CDT_CTX_LIST_VALUE)), PyLong(BigInt(1, 0))),
          CdtCtxStep(PyLong(SmallInt(AS_CDT_CTX_MAP_KEY)), PyStr("a")),
          CdtCtxStep(PyInt(SmallInt(AS_CDT_CTX_MAP_VALUE)), PyBool(TRUE)),
          CdtCtxStep(PyInt(SmallInt(UnknownCtxKind)), PyLong(BigInt(1, 0))),
          CdtCtxStep(PyStr("a"), PyInt(SmallInt(2))),
          CdtCtxStep(PyInt(SmallInt(-1)), PyInt(SmallInt(2))),
          [t |-> "object", id |-> PyInt(SmallInt(AS_CDT_CTX_LIST_INDEX))],
          PyInt(SmallInt(5))}
CtxLists == {PyList(steps) : steps \in UNION {[1..n -> CtxSteps] : n \in 0..MaxSteps}}
\* the dictionaries of an operation: without a context, with one of the
\* lists, with a context that is no list
OpDicts == {EmptyDict, PyDict([k \in {PyStr("ctx")} |-> PyInt(SmallInt(5))])}
               \cup {PyDict([k \in {PyStr("ctx")} |-> l]) : l \in CtxLists}
CtxClients == {AerospikeClient(FALSE, TRUE, TRUE), AerospikeClient(FALSE, TRUE, FALSE)}

\* the lists and maps the container converters are called on directly:
\* empty ones, ones whose elements convert, ones with an element that does
\* not
ReadLists == {as_list(items) : items \in UNION {[1..n -> ReadElems] : n \in 0..2}}
ReadMaps == {as_map(pairs) :
                pairs \in UNION {[1..n -> {<<as_string(<<"k">>, TRUE), as_integer(SmallInt(3))>>,
                                           <<as_integer(SmallInt(3)), as_undef>>,
                                           <<as_list(<<>>), as_integer(SmallInt(3))>>}] :
                                 n \in 0..2}}
\* the offsets of pyobject_to_index: an int, a long, a long past 64 bits,
\* a boolean, a string
IndexValues == {PyInt(SmallInt(5)), PyLong(SmallInt(-1)), PyLong(BigInt(1, 0)), PyBool(TRUE),
                PyStr("a")}

\* the metadata of an operation: those of a record, a ttl past 64 bits, a
\* generation that is no integer
OpMetas == HostMetas \cup {PyDict([k \in {PyStr("ttl")} |-> PyLong(BigInt(1, 0))]),
                           PyDict([k \in {PyStr("ttl"), PyStr("gen")} |->
                                      IF k = PyStr("ttl") THEN PyInt(SmallInt(100))
                                      ELSE PyStr("a")])}

\* the bin names of an operation: none, a short one, one of exactly
\* AS_BIN_NAME_MAX_LEN characters, one of one more, a unicode, bytearrays of
\* 2 and of 15 bytes, an integer
OpBinNames == {PyNULL, PyStr("b"), PyStr("abcdefghijklmn"), PyStr("abcdefghijklmno"),
               PyUnicode("c"), PyByteArray(SmallSize(2), Bytes(2, 9)),
               PyByteArray(SmallSize(15), Bytes(15, 3)), PyInt(SmallInt(5))}

----------------------------------------------------------------------------
(* The calls *)

Init ==
    /\ call = "none"
    /\ arg = PyNULL
    /\ err = as_error_reset(PyNULL)
    /\ key = UninitKey
    /\ inits = <<>>
    /\ obj = PyNULL
    /\ key_src = PyNULL
    /\ ret = AEROSPIKE_OK
    /\ out = PyNULL
    /\ trace = <<>>

\* The calls do not depend on one another but for the as_error record they
\* share and the key one call hands to the next.  Each entry point is called
\* by a caller that has called nothing yet and by a caller whose as_error
\* still holds the failure of an earlier call.
Fresh == call = "none" \/ (call = "pyobject_to_key" /\ arg.py_keytuple = PyNULL)

\* pyobject_to_key on a fresh as_key of the caller
PyobjectToKey ==
    /\ Fresh
    /\ \E o \in KeyInputs, key_init_ok \in BOOLEAN :
           LET r == pyobject_to_key(err, o, UninitKey, key_init_ok)
           IN /\ call' = "pyobject_to_key"
              /\ arg' = [py_keytuple |-> o, key_init_ok |-> key_init_ok]
              /\ err' = r.err
              /\ key' = r.key
              /\ inits' = r.inits
              /\ obj' = PyNULL
              /\ key_src' = IF OK(r.err) THEN o ELSE PyNULL
              /\ ret' = r.err.code
              /\ UNCHANGED <<out, trace>>

\* the driver computes the digest of a key built from a user-key
DriverDigest ==
    /\ call = "pyobject_to_key"
    /\ key # UninitKey
    /\ key.valuep # NoValue
    /\ ~key.digest.init
    /\ \E d \in DriverDigests : key' = [key EXCEPT !.digest = [init |-> TRUE, value |-> d]]
    /\ call' = "as_key_digest"
    /\ UNCHANGED <<arg, err, inits, obj, key_src, ret, out, trace>>

\* what a converter to host objects leaves: *err, the object, the status
ValueRead(r) == err' = r.err /\ obj' = r.obj /\ ret' = r.err.code

\* key_to_pyobject on the caller's key, or on a null pointer
KeyToPyobject ==
    /\ call \in {"pyobject_to_key", "as_key_digest"}
    /\ key # UninitKey
    /\ \E k \in {key, NullKey} :
        /\ call' = "key_to_pyobject"
        /\ arg' = k
        /\ ValueRead(key_to_pyobject(err, k))
    /\ UNCHANGED <<key, inits, key_src, out, trace>>

\* the keys a record is externalized under: none, or the caller's key
KeyOverrides == {NullKey} \cup (IF key = UninitKey THEN {} ELSE {key})

\* a caller that holds no key, or holds the key parsed from ("test", "demo", 5)
RecordCaller ==
    \/ Fresh
    \/ /\ call = "pyobject_to_key"
       /\ key_src = PyTuple(<<PyStr("test"), PyStr("demo"), PyInt(SmallInt(5))>>)

RecordToPyobject ==
    /\ RecordCaller
    /\ \E rec \in Records \cup {NullRecord}, k \in KeyOverrides, cnvt \in BOOLEAN :
        /\ call' = "do_record_to_pyobject"
        /\ arg' = [rec |-> rec, key |-> k, cnvt_list_to_map |-> cnvt]
        /\ ValueRead(do_record_to_pyobject(err, rec, k, cnvt))
    /\ UNCHANGED <<key, inits, key_src, out, trace>>

BinsToPyobject ==
    /\ Fresh
    /\ \E rec \in Records \cup {NullRecord}, cnvt \in BOOLEAN :
        /\ call' = "bins_to_pyobject"
        /\ arg' = [rec |-> rec, cnvt_list_to_map |-> cnvt]
        /\ ValueRead(bins_to_pyobject(err, rec, cnvt))
    /\ UNCHANGED <<key, inits, key_src, out, trace>>

OperateBinsToPyobject ==
    /\ Fresh
    /\ \E rec \in Records \cup {NullRecord} :
        /\ call' = "operate_bins_to_pyobject"
        /\ arg' = [rec |-> rec]
        /\ ValueRead(operate_bins_to_pyobject(err, rec))
    /\ UNCHANGED <<key, inits, key_src, out, trace>>

BatchConverted(r) == err' = r.err /\ obj' = r.obj /\ ret' = r.ret
AsBatchReadResultsToPyobject ==
    /\ Fresh
    /\ \E results \in Batches(BatchKeys \cup {NullKey}) :
        /\ call' = "as_batch_read_results_to_pyobject"
        /\ arg' = [results |-> results]
        /\ BatchConverted(as_batch_read_results_to_pyobject(err, results))
    /\ UNCHANGED <<key, inits, key_src, out, trace>>

BatchReadRecordsToPyobject ==
    /\ Fresh
    /\ \E records \in Batches(BatchKeys) :
        /\ call' = "batch_read_records_to_pyobject"
        /\ arg' = [results |-> records]
        /\ BatchConverted(batch_read_records_to_pyobject(err, records))
    /\ UNCHANGED <<key, inits, key_src, out, trace>>

\* val_to_pyobject and val_to_pyobject_cnvt_list_to_map on a value of the
\* driver; from is the host object the value was converted from, if any
ValToPyobject ==
    /\ Fresh
    /\ \E val \in ReadValues, cnvt \in BOOLEAN :
        /\ call' = "do_val_to_pyobject"
        /\ arg' = [val |-> val, cnvt_list_to_map |-> cnvt, from |-> PyNULL]
        /\ ValueRead(do_val_to_pyobject(err, val, cnvt))
    /\ UNCHANGED <<key, inits, key_src, out, trace>>

\* pyobject_to_val on a host object, the caller's *val null before the call
ValueWritten(r) == err' = r.err /\ out' = r.val /\ ret' = r.err.code
PyobjectToVal ==
    /\ Fresh
    /\ \E py_obj \in WriteValues, self \in Clients, static_pool \in Pools :
        /\ call' = "pyobject_to_val"
        /\ arg' = [py_obj |-> py_obj, self |-> self, static_pool |-> static_pool]
        /\ ValueWritten(pyobject_to_val(err, py_obj, self, static_pool))
    /\ UNCHANGED <<key, inits, obj, key_src, trace>>

\* val_to_pyobject on the value a successful pyobject_to_val left in *val
ValToPyobjectOfConverted ==
    /\ call = "pyobject_to_val"
    /\ OK(err)
    /\ call' = "do_val_to_pyobject"
    /\ arg' = [val |-> out, cnvt_list_to_map |-> FALSE, from |-> arg.py_obj]
    /\ ValueRead(val_to_pyobject(err, out))
    /\ UNCHANGED <<key, inits, key_src, out, trace>>

\* pyobject_to_astype_write on a host object, the caller's *val null before
\* the call
PyobjectToAstypeWrite ==
    /\ Fresh
    /\ \E py_value \in WriteValues, self \in Clients, static_pool \in Pools :
        /\ call' = "pyobject_to_astype_write"
        /\ arg' = [py_obj |-> py_value, self |-> self, static_pool |-> static_pool]
        /\ ValueWritten(pyobject_to_astype_write(err, py_value, self, static_pool))
    /\ UNCHANGED <<key, inits, obj, key_src, trace>>

RecordWritten(r) == err' = r.err /\ out' = r.rec /\ trace' = r.calls /\ ret' = r.err.code
\* pyobject_to_record on a host dictionary and metadata; the caller's
\* record is a fresh one, trace the calls made on it
PyobjectToRecord ==
    /\ Fresh
    /\ \E py_rec \in HostRecords, py_meta \in HostMetas, self \in Clients, driver_ok \in BOOLEAN,
          static_pool \in Pools :
        /\ call' = "pyobject_to_record"
        /\ arg' = [py_rec |-> py_rec, py_meta |-> py_meta, self |-> self,
                   driver_ok |-> driver_ok, static_pool |-> static_pool]
        /\ RecordWritten(pyobject_to_record(err, py_rec, py_meta, NullRecord, self, driver_ok,
                                            static_pool))
    /\ UNCHANGED <<key, inits, obj, key_src>>

BinInitialized(r) == err' = r.err /\ out' = r.bin
\* initialize_bin_for_strictypes on the value of an operation; the text read
\* through the pointer into the released bytes object is the one that was
\* there or another
InitializeBinForStrictypes ==
    /\ Fresh
    /\ \E py_value \in WriteValues, self \in Clients :
       \E freed_text \in (IF PyUnicode_Check(py_value) THEN {CString(py_value.u), ""} ELSE {""}),
          static_pool \in Pools :
        /\ call' = "initialize_bin_for_strictypes"
        /\ arg' = [py_obj |-> py_value, self |-> self, static_pool |-> static_pool]
        /\ BinInitialized(initialize_bin_for_strictypes(err, py_value, "b", self, freed_text,
                                                        static_pool))
    /\ UNCHANGED <<key, inits, obj, key_src, ret, trace>>

CtxBuilt(r) ==
    /\ err' = r.err
    /\ ret' = r.ret
    /\ out' = [ctx |-> r.ctx, ctx_in_use |-> r.ctx_in_use, held |-> r.held]
    /\ trace' = r.calls
\* get_cdt_ctx on the dictionary of an operation, the caller's as_cdt_ctx
\* uninitialized and *ctx_in_use false before the call; out holds the
\* context, the flag and the values left unreleased
GetCdtCtx ==
    /\ Fresh
    /\ \E op_dict \in OpDicts, self \in CtxClients, wild \in BOOLEAN, static_pool \in Pools :
        /\ call' = "get_cdt_ctx"
        /\ arg' = [op_dict |-> op_dict, self |-> self, static_pool |-> static_pool]
        /\ CtxBuilt(get_cdt_ctx(err, op_dict, UninitCtx, FALSE, self, wild, static_pool))
    /\ UNCHANGED <<key, inits, obj, key_src>>

\* list_to_pyobject called directly on a driver list
ListToPyobject ==
    /\ Fresh
    /\ \E list \in ReadLists :
        /\ call' = "list_to_pyobject"
        /\ arg' = [list |-> list]
        /\ ValueRead(list_to_pyobject(err, list))
    /\ UNCHANGED <<key, inits, key_src, out, trace>>

\* map_to_pyobject called directly on a driver map
MapToPyobject ==
    /\ Fresh
    /\ \E map \in ReadMaps :
        /\ call' = "map_to_pyobject"
        /\ arg' = [map |-> map]
        /\ ValueRead(map_to_pyobject(err, map))
    /\ UNCHANGED <<key, inits, key_src, out, trace>>

\* as_list_of_map_to_py_tuple_list called directly on a driver list
AsListOfMapToPyTupleList ==
    /\ Fresh
    /\ \E list \in ReadLists :
        /\ call' = "as_list_of_map_to_py_tuple_list"
        /\ arg' = [list |-> list]
        /\ ValueRead(as_list_of_map_to_py_tuple_list(err, list))
    /\ UNCHANGED <<key, inits, key_src, out, trace>>

IndexRead(r) == err' = r.err /\ out' = r.long_val /\ ret' = r.err.code
\* pyobject_to_index on a host object, the caller's long zero before the
\* call
PyobjectToIndex ==
    /\ Fresh
    /\ \E py_value \in IndexValues, self \in Clients :
        /\ call' = "pyobject_to_index"
        /\ arg' = [py_value |-> py_value, self |-> self]
        /\ IndexRead(pyobject_to_index(err, py_value, self, SmallInt(0)))
    /\ UNCHANGED <<key, inits, obj, key_src, trace>>

OpsChecked(r) == err' = r.err /\ out' = r.ops /\ ret' = r.err.code
\* check_for_meta on the metadata of an operation, the caller's
\* as_operations as as_operations_inita leaves it
CheckForMeta ==
    /\ Fresh
    /\ \E py_meta \in OpMetas :
        /\ call' = "check_for_meta"
        /\ arg' = [py_meta |-> py_meta]
        /\ OpsChecked(check_for_meta(py_meta, as_operations(SmallSize(0), 0), err))
    /\ UNCHANGED <<key, inits, obj, key_src, trace>>

BinNameChecked(r) ==
    err' = r.err /\ out' = [bin |-> r.bin, raised |-> r.raised] /\ ret' = r.err.code
\* bin_strict_type_checking on the bin name of an operation, the caller's
\* char *bin null before the call
BinStrictTypeChecking ==
    /\ Fresh
    /\ \E py_bin \in OpBinNames, self \in Clients :
        /\ call' = "bin_strict_type_checking"
        /\ arg' = [py_bin |-> py_bin, self |-> self]
        /\ BinNameChecked(bin_strict_type_checking(self, err, py_bin, PyNULL))
    /\ UNCHANGED <<key, inits, obj, key_src, trace>>

Next ==
    \/ PyobjectToKey
    \/ DriverDigest
    \/ KeyToPyobject
    \/ RecordToPyobject
    \/ BinsToPyobject
    \/ OperateBinsToPyobject
    \/ AsBatchReadResultsToPyobject
    \/ BatchReadRecordsToPyobject
    \/ ValToPyobject
    \/ PyobjectToVal
    \/ ValToPyobjectOfConverted
    \/ PyobjectToAstypeWrite
    \/ PyobjectToRecord
    \/ InitializeBinForStrictypes
    \/ GetCdtCtx
    \/ ListToPyobject
    \/ MapToPyobject
    \/ AsListOfMapToPyTupleList
    \/ PyobjectToIndex
    \/ CheckForMeta
    \/ BinStrictTypeChecking

Spec == Init /\ [][Next]_vars

----------------------------------------------------------------------------
(* Properties of pyobject_to_key *)

\* the last call was pyobject_to_key
KeyCall == call = "pyobject_to_key"

\* the object has one of the shapes pyobject_to_key reads slots from
KeyShape(o) == (o.t = "tuple" /\ Len(o.items) \in {3, 4}) \/ o.t = "dict"

\* slot name of the input of the last pyobject_to_key call; PyNULL when the
\* input has no slots
ArgSlot(name) ==
    LET o == arg.py_keytuple
    IN IF o.t = "tuple" /\ Len(o.items) \in {3, 4}
       THEN CASE name = "ns" -> o.items[1] [] name = "set" -> o.items[2]
              [] name = "key" -> o.items[3]
              [] name = "digest" -> IF Len(o.items) = 4 THEN o.items[4] ELSE PyNULL
       ELSE IF o.t = "dict" /\ PyStr(name) \in DOMAIN o.d THEN o.d[PyStr(name)]
       ELSE PyNULL

\* a slot holds something other than the host null
Supplied(o) == o # PyNULL /\ o # Py_None

\* the slot holds a byte array whose length, as a uint32_t, is n
ByteArrayOfLen32(o, n) == o.t = "bytearray" /\ o.size.mid = 0 /\ o.size.lo = n

\* the user-key is one pyobject_to_key builds a key from
UsableUserKey(o) ==
    \/ o.t \in {"str", "unicode", "int"}
    \/ o.t = "long" /\ (o.n.q = 0 \/ (o.n.q = 1 /\ o.n.r < 0) \/ (o.n.q = -1 /\ o.n.r >= 0))
    \/ o.t = "bytearray" /\ ~ByteArrayOfLen32(o, 0)

\* C1, as stated, in the case it names: pyobject_to_key returns success
\* only if exactly one of user-key and digest is present with a non-null
\* value; an input with both locators present gets a failure status.
\* (Stated of a non-empty text namespace and a digest that is a byte array,
\* so that nothing else about the input could account for the outcome.)
C1_BothLocatorsFail ==
    (KeyCall /\ KeyShape(arg.py_keytuple)
        /\ ArgSlot("ns").t = "str" /\ ArgSlot("ns").s # ""
        /\ Supplied(ArgSlot("key")) /\ PyByteArray_Check(ArgSlot("digest")))
        => ~OK(err)

\* C1, amended: pyobject_to_key returns success if and only if the input
\* is a 3- or 4-tuple or a dictionary, the namespace is a string object, the
\* set is absent, None or text, the locator is usable (a user-key that is
\* text, an integer within 64 bits or a byte array of non-zero length; or,
\* with no user-key, a digest that is a byte array of length 20), and the
\* driver's key initializer accepts the names.  A digest next to a usable
\* user-key does not make the call fail, and an empty namespace is not
\* refused by this function.
C1_SuccessIffUsableLocator ==
    KeyCall =>
        (OK(err) <=>
            /\ KeyShape(arg.py_keytuple)
            /\ ArgSlot("ns").t = "str"
            /\ (Supplied(ArgSlot("set")) => ArgSlot("set").t \in {"str", "unicode"})
            /\ IF Supplied(ArgSlot("key"))
               THEN UsableUserKey(ArgSlot("key"))
               ELSE Supplied(ArgSlot("digest")) /\ ByteArrayOfLen32(ArgSlot("digest"), 20)
            /\ arg.key_init_ok)

\* C1 witness: a call given both a user-key and a digest has succeeded
C1_Witness ==
    /\ KeyCall /\ OK(err)
    /\ ArgSlot("ns") = PyStr("test")
    /\ Supplied(ArgSlot("key")) /\ Supplied(ArgSlot("digest"))

\* C2, as stated, in its first half: every input whose digest slot holds a
\* byte array of a length other than 20 fails with AEROSPIKE_ERR_PARAM,
\* whatever the other slots hold.  (Stated of byte arrays shorter than 2^31
\* bytes and of namespaces other than the empty string.)
C2_BadDigestAlwaysFails ==
    (/\ KeyCall /\ ArgSlot("ns") # PyStr("")
     /\ ArgSlot("digest").t = "bytearray"
     /\ ArgSlot("digest").size.hi = 0 /\ ArgSlot("digest").size.mid = 0
     /\ ArgSlot("digest").size.lo # 20)
        => err.code = AEROSPIKE_ERR_PARAM

\* C2, amended: every input with a string namespace, a set that is absent,
\* None or text, and no user-key (absent or None) whose digest slot holds a
\* byte array whose length, read as a uint32_t, is not 20 fails with
\* AEROSPIKE_ERR_PARAM, no key initializer is invoked, and the message ends
\* with that length as %d prints it: the length itself when it is below
\* 2^31.  This holds for the 4-tuple and for the dictionary.
C2_BadDigestFailsWithoutUserKey ==
    (/\ KeyCall /\ KeyShape(arg.py_keytuple)
     /\ ArgSlot("ns").t = "str"
     /\ (Supplied(ArgSlot("set")) => ArgSlot("set").t \in {"str", "unicode"})
     /\ ~Supplied(ArgSlot("key"))
     /\ ArgSlot("digest").t = "bytearray" /\ ~ByteArrayOfLen32(ArgSlot("digest"), 20))
        => LET size == ArgSlot("digest").size
           IN /\ err.code = AEROSPIKE_ERR_PARAM
              /\ inits = <<>>
              /\ size.mid = 0 =>
                    err.message = "digest size is invalid. should be 20 bytes, but received "
                                  \o FormatUnsigned(size.lo)
              /\ size = Size(0, 1, 20) =>
                    err.message = "digest size is invalid. should be 20 bytes, but received -2147483628"

\* C2 witness: a dictionary with a 19-byte digest and no user-key was refused
C2_Witness ==
    /\ KeyCall /\ arg.py_keytuple.t = "dict"
    /\ ~Supplied(ArgSlot("key"))
    /\ ByteArrayOfLen32(ArgSlot("digest"), 19)
    /\ err = [code |-> AEROSPIKE_ERR_PARAM,
              message |-> "digest size is invalid. should be 20 bytes, but received 19"]

\* C3: when both the user-key and the digest are null or absent (3-tuple
\* with key None, 4-tuple with key None and digest None, dictionary without
\* them), pyobject_to_key fails with AEROSPIKE_ERR_PARAM and invokes no
\* as_key initializer: the caller's key is left as it was.
C3_NoLocatorFails ==
    (/\ KeyCall /\ KeyShape(arg.py_keytuple)
     /\ ~Supplied(ArgSlot("key")) /\ ~Supplied(ArgSlot("digest")))
        => (err.code = AEROSPIKE_ERR_PARAM /\ inits = <<>> /\ key = UninitKey)

\* C3 witness: a 3-tuple with valid names and key None was refused for its
\* missing locator
C3_Witness ==
    /\ KeyCall
    /\ arg.py_keytuple = PyTuple(<<PyStr("test"), PyStr("demo"), Py_None>>)
    /\ err.message = "either key or digest is required"

\* the input without its digest: the 3-tuple of a 4-tuple, the dictionary
\* without the "digest" entry
WithoutDigest(o) ==
    IF o.t = "tuple" THEN PyTuple(SubSeq(o.items, 1, 3))
    ELSE PyDict([x \in (DOMAIN o.d) \ {PyStr("digest")} |-> o.d[x]])

\* C4: given both a non-null user-key and a non-null digest, the key is
\* built from the user-key only: the digest is neither copied into the key
\* nor validated, and the status, the message, the key and the initializer
\* invoked are those of the same call with the digest removed.
C4_UserKeyTakesPrecedence ==
    (/\ KeyCall /\ KeyShape(arg.py_keytuple)
     /\ Supplied(ArgSlot("key")) /\ Supplied(ArgSlot("digest")))
        => LET r == pyobject_to_key(err, WithoutDigest(arg.py_keytuple), UninitKey, arg.key_init_ok)
           IN /\ err = r.err /\ key = r.key /\ inits = r.inits
              /\ "as_key_init_digest" \notin {inits[i] : i \in DOMAIN inits}
              /\ key # UninitKey => ~key.digest.init

\* C4 witness: a key was built from user-key 5 although the digest next to
\* it has 19 bytes
C4_Witness ==
    /\ KeyCall /\ OK(err)
    /\ ArgSlot("key") = PyInt(SmallInt(5))
    /\ ByteArrayOfLen32(ArgSlot("digest"), 19)
    /\ key.valuep = as_integer(SmallInt(5)) /\ ~key.digest.init

----------------------------------------------------------------------------
(* Properties of key_to_pyobject *)

\* the last call was key_to_pyobject on a key that is not a null pointer
KeyOut == call = "key_to_pyobject" /\ arg # NullKey

\* the four host-null slots
NoneKey == PyTuple(<<Py_None, Py_None, Py_None, Py_None>>)

\* C5: for every non-null key, key_to_pyobject returns success with a tuple
\* of exactly 4 slots (namespace, set, user-key, digest); a slot is host-null
\* exactly when the key's part is absent (empty name, no stored value,
\* digest not initialized); the user-key slot is an integer, text or raw
\* bytes by the tag of the stored value; the digest slot is the 20-byte array
\* of the key's digest whenever the digest is initialized, user-key or not.
C5_KeySlotsMirrorKeyParts ==
    KeyOut =>
        /\ OK(err)
        /\ obj.t = "tuple" /\ Len(obj.items) = 4
        /\ obj.items[1] = (IF arg.ns = "" THEN Py_None ELSE [t |-> "str", s |-> arg.ns])
        /\ obj.items[2] = (IF arg.set = "" THEN Py_None ELSE [t |-> "str", s |-> arg.set])
        /\ (obj.items[3] = Py_None) <=> (arg.valuep = NoValue)
        /\ arg.valuep # NoValue =>
              CASE arg.valuep.t = "AS_INTEGER" -> obj.items[3] = [t |-> "int", i |-> arg.valuep.i]
                [] arg.valuep.t = "AS_STRING" -> obj.items[3] = [t |-> "str", s |-> arg.valuep.str[1]]
                [] arg.valuep.t = "AS_BYTES" ->
                      /\ obj.items[3].t = "bytearray"
                      /\ obj.items[3].size = arg.valuep.size
                      /\ obj.items[3].data = arg.valuep.data
        /\ (obj.items[4] = Py_None) <=> ~arg.digest.init
        /\ arg.digest.init =>
              /\ obj.items[4].t = "bytearray"
              /\ obj.items[4].size = Size(0, 0, 20)
              /\ Len(obj.items[4].data) = 20
              /\ obj.items[4].data = arg.digest.value

\* a key holding both a stored user-key and an initialized digest has been
\* externalized
C5_Witness ==
    /\ KeyOut
    /\ arg.valuep # NoValue
    /\ arg.digest.init
    /\ obj.t = "tuple"
    /\ obj.items[3] # Py_None /\ obj.items[4] # Py_None

\* the key externalized was parsed from a 4-slot tuple (ns, s, None, d) with
\* d a byte array of exactly 20 bytes
DigestOnlySource ==
    /\ key_src.t = "tuple" /\ Len(key_src.items) = 4
    /\ key_src.items[3] = Py_None
    /\ key_src.items[4].t = "bytearray"
    /\ key_src.items[4].size = Size(0, 0, 20)

\* a 4-slot tuple (ns, s, None, d), ns a non-empty host string, d a byte
\* array of exactly 20 bytes, has been handed to pyobject_to_key
DigestOnlyArg ==
    /\ KeyCall
    /\ arg.py_keytuple.t = "tuple" /\ Len(arg.py_keytuple.items) = 4
    /\ ArgSlot("ns").t = "str" /\ ArgSlot("ns").s # ""
    /\ ArgSlot("key") = Py_None
    /\ ArgSlot("digest").t = "bytearray"
    /\ ArgSlot("digest").size = Size(0, 0, 20)

\* the text of a host string, str or unicode
TextOf(o) == IF o.t = "str" THEN o.s ELSE o.u

----------------------------------------------------------------------------
(* Properties of the record conversions *)

\* the last call was do_record_to_pyobject
RecordCall == call = "do_record_to_pyobject"

\* C7: whenever do_record_to_pyobject returns success the output is a tuple
\* of exactly 3 slots (key, metadata, bins): the metadata mapping holds
\* exactly 'ttl' and 'gen', equal to the record's ttl and gen, and the bins
\* slot is a mapping, empty when the record has no bins.  Whenever it
\* returns failure the output pointer is null.
C7_RecordTupleShape ==
    RecordCall =>
        IF OK(err)
        THEN /\ obj.t = "tuple" /\ Len(obj.items) = 3
             /\ obj.items[2].t = "dict"
             /\ DOMAIN obj.items[2].d = {[t |-> "str", s |-> "ttl"], [t |-> "str", s |-> "gen"]}
             /\ obj.items[2].d[[t |-> "str", s |-> "ttl"]] = [t |-> "int", i |-> [q |-> 0, r |-> arg.rec.ttl]]
             /\ obj.items[2].d[[t |-> "str", s |-> "gen"]] = [t |-> "int", i |-> [q |-> 0, r |-> arg.rec.gen]]
             /\ obj.items[3].t = "dict"
             /\ (arg.rec.bins = <<>> => DOMAIN obj.items[3].d = {})
        ELSE obj = PyNULL

\* a record without bins has been externalized
C7_Witness ==
    /\ RecordCall /\ OK(err)
    /\ arg.rec # NullRecord /\ arg.rec.bins = <<>>
    /\ obj.t = "tuple" /\ obj.items[3] = EmptyDict

\* the record externalized carries no key and the caller passes no key
KeylessRecord ==
    /\ RecordCall /\ OK(err)
    /\ arg.key = NullKey
    /\ arg.rec # NullRecord
    /\ arg.rec.key.ns = "" /\ arg.rec.key.set = ""
    /\ arg.rec.key.valuep = NoValue /\ ~arg.rec.key.digest.init

RECURSIVE Denotes(_, _)
\* the host object o is the externalization of the driver value v: integer
\* to int, string to str, list to the list of its items' externalizations
Denotes(o, v) ==
    CASE v.t = "AS_INTEGER" -> o = [t |-> "int", i |-> v.i]
      [] v.t = "AS_STRING" -> o = [t |-> "str", s |-> v.str[1]]
      [] v.t = "AS_LIST" -> /\ o.t = "list"
                            /\ Len(o.items) = Len(v.items)
                            /\ \A i \in 1..Len(v.items) : Denotes(o.items[i], v.items[i])
      [] OTHER -> FALSE

\* C9: operate_bins_to_pyobject, on success, returns an ordered sequence
\* with exactly one (name, value) pair per bin occurrence of the record, in
\* iteration order: the output length is the number of bin occurrences,
\* duplicate names are kept as separate entries, and the i-th pair is the
\* name and the externalized value of the i-th bin.
C9_OperateKeepsEveryOccurrence ==
    (call = "operate_bins_to_pyobject" /\ OK(err)) =>
        /\ obj.t = "list"
        /\ Len(obj.items) = Len(arg.rec.bins)
        /\ \A i \in 1..Len(arg.rec.bins) :
              /\ obj.items[i].t = "tuple" /\ Len(obj.items[i].items) = 2
              /\ obj.items[i].items[1] = [t |-> "str", s |-> arg.rec.bins[i].name]
              /\ Denotes(obj.items[i].items[2], arg.rec.bins[i].value)

\* the bins (b,5), (b,6), (c,[3,4,5]) have come out as those 3 pairs in that
\* order
C9_Witness ==
    /\ call = "operate_bins_to_pyobject" /\ OK(err)
    /\ arg.rec # NullRecord
    /\ Len(arg.rec.bins) = 3
    /\ arg.rec.bins[1].name = "b" /\ arg.rec.bins[2].name = "b" /\ arg.rec.bins[3].name = "c"
    /\ obj = PyList(<<PyTuple(<<PyStr("b"), PyInt(SmallInt(5))>>),
                      PyTuple(<<PyStr("b"), PyInt(SmallInt(6))>>),
                      PyTuple(<<PyStr("c"), PyList(<<PyInt(SmallInt(3)), PyInt(SmallInt(4)),
                                                     PyInt(SmallInt(5))>>)>>)>>)

\* the index of the last bin named n
LastOccurrence(bins, n) ==
    CHOOSE i \in 1..Len(bins) :
        /\ bins[i].name = n
        /\ \A j \in (i + 1)..Len(bins) : bins[j].name # n

\* C10: bins_to_pyobject, on success, returns a mapping with exactly one
\* entry per distinct bin name of the record; when a name occurs more than
\* once the entry holds the value of the last occurrence in iteration order
\* (externalized as that bin alone is, and, unless lists are converted, as
\* the integer, string or list the value is).
C10_BinsLastOccurrenceWins ==
    (call = "bins_to_pyobject" /\ OK(err)) =>
        LET bins == arg.rec.bins
        IN /\ obj.t = "dict"
           /\ DOMAIN obj.d = {[t |-> "str", s |-> bins[i].name] : i \in 1..Len(bins)}
           /\ \A i \in 1..Len(bins) :
                LET name == [t |-> "str", s |-> bins[i].name]
                    last == bins[LastOccurrence(bins, bins[i].name)]
                    alone == bins_to_pyobject(as_error_reset(err),
                                 [arg.rec EXCEPT !.bins = <<last>>], arg.cnvt_list_to_map)
                IN /\ OK(alone.err)
                   /\ obj.d[name] = alone.obj.d[name]
                   /\ ~arg.cnvt_list_to_map => Denotes(obj.d[name], last.value)

\* a record in which a name occurs twice with different values has come out
\* with the later value under that name
C10_Witness ==
    /\ call = "bins_to_pyobject" /\ OK(err)
    /\ arg.rec # NullRecord
    /\ Len(arg.rec.bins) = 3
    /\ arg.rec.bins[1] = as_bin("b", as_integer(SmallInt(5)))
    /\ arg.rec.bins[2] = as_bin("c", as_list(<<as_string(<<"k">>, TRUE), as_integer(SmallInt(1))>>))
    /\ arg.rec.bins[3] = as_bin("b", as_integer(SmallInt(6)))
    /\ obj.d[PyStr("b")] = PyInt(SmallInt(6))
    /\ DOMAIN obj.d = {PyStr("b"), PyStr("c")}

----------------------------------------------------------------------------
(* Properties of the batch converters *)

\* the last call was one of the two batch converters
BatchCall ==
    call \in {"as_batch_read_results_to_pyobject", "batch_read_records_to_pyobject"}

\* what entry e of a batch converts to on its own: its record under its key
\* when it was found, and (key, None, None) when it was not
EntryAlone(e) ==
    IF e.result = AEROSPIKE_OK
    THEN do_record_to_pyobject(as_error_reset(err), e.record, e.key, FALSE)
    ELSE LET k == key_to_pyobject(as_error_reset(err), e.key)
         IN [err |-> k.err,
             obj |-> IF OK(k.err) THEN [t |-> "tuple", items |-> <<k.obj, Py_None, Py_None>>]
                     ELSE PyNULL]

\* C11: both batch converters, on success, return a list whose length is the
\* number of batch entries and whose i-th element corresponds to the i-th
\* entry: (key, meta, bins) when the entry's result status is OK, and
\* (key, None, None) with the entry's externalized key when it is not.
C11_BatchOneTuplePerEntry ==
    (BatchCall /\ ret = AEROSPIKE_OK) =>
        /\ obj.t = "list"
        /\ Len(obj.items) = Len(arg.results)
        /\ \A i \in 1..Len(arg.results) :
              LET e == arg.results[i]
                  o == obj.items[i]
              IN /\ o.t = "tuple" /\ Len(o.items) = 3
                 /\ o = EntryAlone(e).obj
                 /\ e.key # NullKey => o.items[1] = key_to_pyobject(as_error_reset(err), e.key).obj
                 /\ IF e.result = AEROSPIKE_OK
                    THEN /\ o.items[2].t = "dict"
                         /\ o.items[2].d[[t |-> "str", s |-> "gen"]].i.r = e.record.gen
                         /\ o.items[3].t = "dict"
                         /\ DOMAIN o.items[3].d =
                               {[t |-> "str", s |-> e.record.bins[j].name] : j \in 1..Len(e.record.bins)}
                    ELSE o.items[2] = Py_None /\ o.items[3] = Py_None

\* a batch of 2 keys in which the second has no record has come out as
\* [(key1, meta1, bins1), (key2, None, None)], by either converter
C11_Witness ==
    /\ call = "batch_read_records_to_pyobject" /\ ret = AEROSPIKE_OK
    /\ Len(arg.results) = 2
    /\ arg.results[1].result = AEROSPIKE_OK
    /\ Len(arg.results[1].record.bins) = 1
    /\ arg.results[2].result # AEROSPIKE_OK
    /\ arg.results[1].key # arg.results[2].key
    /\ Len(obj.items) = 2
    /\ obj.items[2].items[2] = Py_None /\ obj.items[2].items[3] = Py_None
    /\ obj.items[1].items[3] # Py_None

\* entry e of a batch cannot be converted
EntryFails(e) == ~OK(EntryAlone(e).err)

\* the first entry of the batch that cannot be converted
FirstFailing(results) ==
    CHOOSE i \in 1..Len(results) :
        EntryFails(results[i]) /\ \A j \in 1..(i - 1) : ~EntryFails(results[j])

\* C12, as stated: the batch converters process every entry: a conversion
\* failure of one entry's record does not stop the processing of the
\* remaining entries, and the whole batch conversion does not fail for it.
C12_BatchGoesOnAfterFailure ==
    (BatchCall /\ \E i \in 1..Len(arg.results) :
                      arg.results[i].result = AEROSPIKE_OK /\ EntryFails(arg.results[i]))
        => (ret = AEROSPIKE_OK /\ obj.t = "list")

\* C12, amended: the batch converters stop at the first entry that cannot be
\* converted (a record with a value of unknown type, a null key): the whole
\* batch conversion fails at once with that entry's error, the output is
\* null and the entries after it are not looked at; the conversion succeeds
\* exactly when every entry converts.
C12_BatchFailsAtFirstFailure ==
    BatchCall =>
        IF \E i \in 1..Len(arg.results) : EntryFails(arg.results[i])
        THEN /\ ret # AEROSPIKE_OK
             /\ obj = PyNULL
             /\ err = EntryAlone(arg.results[FirstFailing(arg.results)]).err
             /\ ret = err.code
        ELSE ret = AEROSPIKE_OK /\ obj.t = "list"

\* a batch whose first entry holds a record that cannot be converted and
\* whose second entry is a null key has failed with the first entry's error
C12_Witness ==
    /\ call = "as_batch_read_results_to_pyobject"
    /\ Len(arg.results) = 2
    /\ arg.results[1].result = AEROSPIKE_OK /\ EntryFails(arg.results[1])
    /\ arg.results[2].result # AEROSPIKE_OK /\ arg.results[2].key = NullKey
    /\ ret # AEROSPIKE_OK /\ obj = PyNULL
    /\ err.message = "Unknown type for value"

----------------------------------------------------------------------------
(* Properties of do_val_to_pyobject *)

\* the last call was do_val_to_pyobject
ValCall == call = "do_val_to_pyobject"

\* element i of the list converts on its own
ElemAlone(i) == do_val_to_pyobject(as_error_reset(err), arg.val.items[i], FALSE)

\* C13: in flatten mode (do_val_to_pyobject with cnvt_list_to_map true) every
\* list of odd length is rejected with ClientError and produces no output;
\* every list of length 2n whose elements convert yields exactly n pairs,
\* the k-th pair being (element 2k, element 2k+1) of the input, counted from
\* 0, in the original order.
C13_FlattenPairsInOrder ==
    (ValCall /\ arg.cnvt_list_to_map /\ arg.val.t = "AS_LIST") =>
        LET items == arg.val.items
        IN IF Len(items) % 2 = 1
           THEN /\ ret = AEROSPIKE_ERR_CLIENT
                /\ err.message = "Invalid key list of key/value pairs"
                /\ obj = PyNULL
           ELSE (\A i \in 1..Len(items) : OK(ElemAlone(i).err)) =>
                    /\ ret = AEROSPIKE_OK
                    /\ obj.t = "list"
                    /\ 2 * Len(obj.items) = Len(items)
                    /\ \A k \in 1..Len(obj.items) :
                          /\ obj.items[k].t = "tuple" /\ Len(obj.items[k].items) = 2
                          /\ obj.items[k].items[1] = ElemAlone(2 * k - 1).obj
                          /\ obj.items[k].items[2] = ElemAlone(2 * k).obj

\* a list of 4 elements, the first two different from the last two, has been
\* flattened to 2 pairs
C13_Witness ==
    /\ ValCall /\ arg.cnvt_list_to_map /\ arg.val.t = "AS_LIST"
    /\ Len(arg.val.items) = 4
    /\ ret = AEROSPIKE_OK
    /\ obj.t = "list" /\ Len(obj.items) = 2
    /\ obj.items[1] = PyTuple(<<PyStr("k"), PyInt(SmallInt(3))>>)
    /\ obj.items[2] = PyTuple(<<PyInt(SmallInt(3)),
                                PyList(<<PyInt(SmallInt(1)), PyInt(SmallInt(2))>>)>>)

----------------------------------------------------------------------------
(* C16: the round trip through the driver's values *)

RECURSIVE BuiltFromIntegersAndTexts(_)
\* x is built from 64-bit signed integers, texts, and lists and dictionaries
\* of these
BuiltFromIntegersAndTexts(x) ==
    CASE x.t = "int" -> TRUE
      [] x.t = "long" -> InInt64(x.n)
      [] x.t \in {"str", "unicode"} -> TRUE
      [] x.t = "list" -> \A i \in 1..Len(x.items) : BuiltFromIntegersAndTexts(x.items[i])
      [] x.t = "dict" -> \A k \in DOMAIN x.d : /\ BuiltFromIntegersAndTexts(k)
                                               /\ BuiltFromIntegersAndTexts(x.d[k])
      [] OTHER -> FALSE

RECURSIVE HostCanon(_)
\* what the host's == looks at: an int and a long of one value are equal, a
\* str and a unicode of one (ASCII) text are equal, lists are equal item by
\* item and dictionaries key by key
HostCanon(x) ==
    CASE x.t = "int" -> [t |-> "integer", n |-> x.i]
      [] x.t = "long" -> [t |-> "integer", n |-> x.n]
      [] x.t = "str" -> [t |-> "text", s |-> x.s]
      [] x.t = "unicode" -> [t |-> "text", s |-> x.u]
      [] x.t = "list" -> [t |-> "list", items |-> [i \in 1..Len(x.items) |-> HostCanon(x.items[i])]]
      [] x.t = "dict" ->
            [t |-> "dict",
             d |-> [c \in {HostCanon(k) : k \in DOMAIN x.d} |->
                       HostCanon(x.d[CHOOSE k \in DOMAIN x.d : HostCanon(k) = c])]]
      [] OTHER -> x
HostEq(x, y) == HostCanon(x) = HostCanon(y)

RECURSIVE HasNul(_)
\* a text of x has a NUL character in it
HasNul(x) ==
    CASE x.t = "str" -> x.s = TextWithNul
      [] x.t = "unicode" -> x.u = TextWithNul
      [] x.t = "list" -> \E i \in 1..Len(x.items) : HasNul(x.items[i])
      [] x.t = "dict" -> \E k \in DOMAIN x.d : HasNul(k) \/ HasNul(x.d[k])
      [] OTHER -> FALSE

\* the object of a pyobject_to_val call, and of the val_to_pyobject call on
\* its result
ConvertedBack == call = "do_val_to_pyobject" /\ arg.from # PyNULL
RoundTripSource == IF call = "pyobject_to_val" THEN arg.py_obj
                   ELSE IF ConvertedBack THEN arg.from ELSE PyNULL

\* C16: for every host value x built from 64-bit integers, texts and nested
\* lists and dictionaries of these, pyobject_to_val(x) succeeds and
\* val_to_pyobject of the result equals x.
C16_RoundTrip ==
    (RoundTripSource # PyNULL /\ BuiltFromIntegersAndTexts(RoundTripSource)) =>
        /\ OK(err)
        /\ ConvertedBack => HostEq(obj, arg.from)

\* What the code does: the round trip holds of the values none of whose
\* texts has a NUL character in it; a text is cut at its first NUL.
C16_RoundTripOfCStrings ==
    (RoundTripSource # PyNULL /\ BuiltFromIntegersAndTexts(RoundTripSource)
        /\ ~HasNul(RoundTripSource)) =>
        /\ OK(err)
        /\ ConvertedBack => HostEq(obj, arg.from)
C16_Witness ==
    /\ ConvertedBack
    /\ arg.from = PyDict([k \in {PyInt(SmallInt(5))} |->
                             PyDict([j \in {PyUnicode("b")} |-> PyLong(SmallInt(7))])])
    /\ obj = PyDict([k \in {PyInt(SmallInt(5))} |->
                        PyDict([j \in {PyStr("b")} |-> PyInt(SmallInt(7))])])
C16_TextCutAtNul ==
    ~(ConvertedBack /\ arg.from = PyStr(TextWithNul) /\ OK(err) /\ obj = PyStr("a"))

----------------------------------------------------------------------------
(* C17: integers outside the signed 64-bit range *)

IsInteger(o) == o.t \in {"int", "long"}
IntegerOf(o) == IF o.t = "int" THEN o.i ELSE o.n

\* a pyobject_to_val or pyobject_to_astype_write call on an integer
ValueCallOnInteger(c) == call = c /\ IsInteger(arg.py_obj)
\* a pyobject_to_record call on a dictionary of one bin, an integer under a
\* name the driver stores, and no metadata
RecordCallOnInteger ==
    /\ call = "pyobject_to_record"
    /\ PyDict_Check(arg.py_rec)
    /\ DOMAIN arg.py_rec.d = {PyStr("b")}
    /\ IsInteger(arg.py_rec.d[PyStr("b")])
    /\ arg.py_meta = PyNULL
    /\ arg.driver_ok

\* the integer is rejected, or stored with its value
IntegerSettled(x, stored, none) ==
    IF InInt64(IntegerOf(x))
    THEN OK(err) /\ stored = as_integer(IntegerOf(x))
    ELSE err.code = AEROSPIKE_ERR_PARAM /\ none

RecordHasNoInteger == out = AsDestroyed \/ \A i \in 1..Len(out.bins) : out.bins[i].value.t # "AS_INTEGER"

\* C17: in every object-to-value path (pyobject_to_val, the bin values of
\* pyobject_to_record, pyobject_to_astype_write) an integer outside the
\* signed 64-bit range is rejected with AEROSPIKE_ERR_PARAM and no Integer
\* is produced; an integer inside the range is stored with exactly its
\* value, -1 included.
C17_IntegerRangeChecked ==
    /\ ValueCallOnInteger("pyobject_to_val") => IntegerSettled(arg.py_obj, out, out = NoValue)
    /\ ValueCallOnInteger("pyobject_to_astype_write") =>
            IntegerSettled(arg.py_obj, out, out = NoValue)
    /\ RecordCallOnInteger =>
            IntegerSettled(arg.py_rec.d[PyStr("b")],
                           IF out # AsDestroyed /\ Len(out.bins) = 1 THEN out.bins[1].value
                           ELSE NoValue,
                           RecordHasNoInteger)

\* What the code does: pyobject_to_val and pyobject_to_record check the
\* range, pyobject_to_astype_write does not.
C17_IntegerRangeCheckedButInWrite ==
    /\ ValueCallOnInteger("pyobject_to_val") => IntegerSettled(arg.py_obj, out, out = NoValue)
    /\ RecordCallOnInteger =>
            IntegerSettled(arg.py_rec.d[PyStr("b")],
                           IF out # AsDestroyed /\ Len(out.bins) = 1 THEN out.bins[1].value
                           ELSE NoValue,
                           RecordHasNoInteger)
C17_WriteStoresMinusOne ==
    ~(/\ call = "pyobject_to_astype_write"
      /\ arg.py_obj = PyLong(BigInt(1, 0))
      /\ OK(err)
      /\ out = as_integer(SmallInt(-1)))
C17_Witness ==
    /\ RecordCallOnInteger
    /\ arg.py_rec.d[PyStr("b")] = PyLong(SmallInt(-1))
    /\ out.bins = <<as_bin("b", as_integer(SmallInt(-1)))>>

----------------------------------------------------------------------------
(* C18: bools *)

\* a call of one of the four conversions on a bool, and what it stored; for
\* pyobject_to_record the bool is the one bin of the dictionary
BoolCall ==
    \/ /\ call \in {"pyobject_to_val", "pyobject_to_astype_write", "initialize_bin_for_strictypes"}
       /\ PyBool_Check(arg.py_obj)
    \/ /\ call = "pyobject_to_record"
       /\ PyDict_Check(arg.py_rec)
       /\ DOMAIN arg.py_rec.d = {PyStr("b")}
       /\ PyBool_Check(arg.py_rec.d[PyStr("b")])
BoolStored ==
    CASE call = "initialize_bin_for_strictypes" -> out.valuep
      [] call = "pyobject_to_record" ->
            IF out # AsDestroyed /\ Len(out.bins) = 1 THEN out.bins[1].value ELSE NoValue
      [] OTHER -> out

\* C18: a host bool is never converted to an Integer: in every path
\* (pyobject_to_val, pyobject_to_record, pyobject_to_astype_write,
\* initialize_bin_for_strictypes) the bool test comes before the integer
\* test and the bool is stored as Bytes by the serializer.
C18_BoolNeverInteger ==
    BoolCall => /\ BoolStored.t # "AS_INTEGER"
                /\ (OK(err) /\ BoolStored # NoValue) => BoolStored.t = "AS_BYTES"

\* What the code does: but for initialize_bin_for_strictypes, which tests
\* for an integer first
C18_BoolNeverIntegerButStrict ==
    (BoolCall /\ call # "initialize_bin_for_strictypes") =>
        /\ BoolStored.t # "AS_INTEGER"
        /\ (OK(err) /\ BoolStored # NoValue) => BoolStored.t = "AS_BYTES"
C18_StrictStoresInteger ==
    ~(/\ call = "initialize_bin_for_strictypes"
      /\ arg.py_obj = PyBool(TRUE)
      /\ out.valuep = as_integer(SmallInt(1)))
C18_Witness ==
    /\ call = "pyobject_to_astype_write"
    /\ arg.py_obj = PyBool(TRUE)
    /\ OK(err)
    /\ out = as_bytes_serialized(SmallSize(1), <<0>>, PyBool(TRUE))

----------------------------------------------------------------------------
(* C20: the record of a failed pyobject_to_record *)

RecordWriteCall == call = "pyobject_to_record"
Count(calls, c) == Cardinality({i \in 1..Len(calls) : calls[i] = c})
\* the call failed after it had initialized the caller's record
FailedAfterInit == RecordWriteCall /\ ~OK(err) /\ Count(trace, "as_record_init") = 1
\* the failures that return on the spot: a bin name that is no text or too
\* long under strict types, an integer past the range, a serializer
\* failure, a bin the driver refused under strict types
ReturnedInLoop ==
    err.message \in {"A bin name must be a string or unicode string.",
                     "A bin name should not exceed 14 characters limit",
                     "integer value exceeds sys.maxsize", "Unable to serialize",
                     "Unable to set key-value pair", "record is null"}

\* C20: whenever pyobject_to_record fails after it initialized the record
\* (bin name that is no text, over-long name under strict types, integer
\* overflow, serializer failure, nested list or map failure, strict 'unable
\* to set', bad metadata), the record has been destroyed exactly once.
C20_FailedRecordDestroyedOnce ==
    FailedAfterInit => Count(trace, "as_record_destroy") = 1

\* What the code does: the record is destroyed, once, when the failure is
\* one of the metadata, of a nested list or map or of the pool and no bin
\* before it made the function return; it is never destroyed twice, and
\* never after a success.
C20_DestroyedOnlyAfterLoop ==
    RecordWriteCall =>
        /\ Count(trace, "as_record_destroy") <= 1
        /\ OK(err) => Count(trace, "as_record_destroy") = 0
        /\ (FailedAfterInit /\ arg.py_meta \in {PyNULL, Py_None}
                /\ err.message # "Unable to get bytes from pool"
                /\ ~(\E k \in DOMAIN arg.py_rec.d : PyList_Check(arg.py_rec.d[k])))
            => Count(trace, "as_record_destroy") = 0
        /\ (FailedAfterInit /\ Count(trace, "as_record_destroy") = 0) => ReturnedInLoop
C20_RecordLeft ==
    ~(/\ RecordWriteCall
      /\ arg.py_rec = PyDict([k \in {PyInt(SmallInt(5))} |-> PyInt(SmallInt(5))])
      /\ err.code = AEROSPIKE_ERR_CLIENT
      /\ trace = <<"as_record_init">>)
C20_Witness ==
    /\ FailedAfterInit
    /\ err.message = "TTL should be an int or long"
    /\ trace = <<"as_record_init", "as_record_destroy">>

----------------------------------------------------------------------------
(* C14, C15: the steps of a context *)

CtxCall == call = "get_cdt_ctx"
\* the context of the call is a list of one step with an integer kind
OneStep ==
    /\ CtxCall
    /\ PyStr("ctx") \in DOMAIN arg.op_dict.d
    /\ PyList_Check(arg.op_dict.d[PyStr("ctx")])
    /\ Len(arg.op_dict.d[PyStr("ctx")].items) = 1
    /\ arg.op_dict.d[PyStr("ctx")].items[1].t = "_cdt_ctx"
    /\ IsInteger(arg.op_dict.d[PyStr("ctx")].items[1].id)
    /\ ~PyLong_AsUnsignedLong_Raises(arg.op_dict.d[PyStr("ctx")].items[1].id)
TheStep == arg.op_dict.d[PyStr("ctx")].items[1]
TheKind == IntegerOf(TheStep.id)
IntegerKinds == {SmallInt(AS_CDT_CTX_LIST_INDEX), SmallInt(AS_CDT_CTX_LIST_RANK),
                 SmallInt(AS_CDT_CTX_MAP_INDEX), SmallInt(AS_CDT_CTX_MAP_RANK)}
ValueKinds == {SmallInt(AS_CDT_CTX_LIST_VALUE), SmallInt(AS_CDT_CTX_MAP_KEY),
               SmallInt(AS_CDT_CTX_MAP_VALUE)}
CtxRejected == ret = AEROSPIKE_ERR_PARAM /\ err.code = AEROSPIKE_ERR_PARAM
\* the step was added to the context with the value v
CtxAccepted(v) ==
    /\ ret = AEROSPIKE_OK
    /\ out.ctx = as_cdt_ctx(<<[type |-> TheKind, val |-> v]>>)
ValueKindsFollowConverter ==
    (OneStep /\ TheKind \in ValueKinds) =>
        LET r == pyobject_to_val(err, TheStep.value, arg.self, arg.static_pool)
        IN IF OK(r.err) THEN CtxAccepted(r.val) ELSE CtxRejected
UnknownKindRejected ==
    (OneStep /\ TheKind \notin IntegerKinds \cup ValueKinds) => CtxRejected

\* C14: for list-index, list-rank, map-index and map-rank a payload that is
\* no integer is rejected with AEROSPIKE_ERR_PARAM; for list-value, map-key
\* and map-value the payload, a plain integer included, is accepted
\* whenever the value converter accepts it; an unknown kind is rejected
\* with AEROSPIKE_ERR_PARAM.
C14_StepPayloadByKind ==
    /\ (OneStep /\ TheKind \in IntegerKinds /\ ~PyInt_Check(TheStep.value)
            /\ ~PyLong_Check(TheStep.value)) => CtxRejected
    /\ ValueKindsFollowConverter
    /\ UnknownKindRejected

\* What the code does: for the four integer kinds the payload is handed to
\* PyLong_AsLong, which turns a float into an integer, so only a payload
\* without an integer conversion is rejected.
C14_StepPayloadByKindFloatsPass ==
    /\ (OneStep /\ TheKind \in IntegerKinds /\ ~PyInt_Check(TheStep.value)
            /\ ~PyLong_Check(TheStep.value) /\ ~PyFloat_Check(TheStep.value)) => CtxRejected
    /\ ValueKindsFollowConverter
    /\ UnknownKindRejected
C14_FloatIndexAccepted ==
    ~(/\ OneStep
      /\ TheStep = CdtCtxStep(PyInt(SmallInt(AS_CDT_CTX_LIST_INDEX)), PyFloat("1.5"))
      /\ CtxAccepted(SmallInt(1)))
C14_Witness ==
    /\ OneStep
    /\ TheStep = CdtCtxStep(PyInt(SmallInt(AS_CDT_CTX_LIST_VALUE)), PyInt(SmallInt(2)))
    /\ CtxAccepted(as_integer(SmallInt(2)))

\* the call failed after as_cdt_ctx_init
CtxFailedAfterInit ==
    CtxCall /\ ret # AEROSPIKE_OK /\ Len(trace) >= 1 /\ trace[1] = "as_cdt_ctx_init"

\* C15: every failure return of get_cdt_ctx after the context was
\* initialized (bad step attribute, payload that is no integer, payload the
\* value converter rejects, unknown kind) has released the context and
\* every value converted so far.
C15_FailureReleasesContext ==
    CtxFailedAfterInit =>
        /\ trace = <<"as_cdt_ctx_init", "as_cdt_ctx_destroy">>
        /\ out.held = <<>>

\* What the code does: the context is destroyed, once, on every failure but
\* that of the value converter, and the values it owns with it; the value
\* converted for a step of unknown kind is left unreleased.
C15_FailureReleasesButConverter ==
    CtxFailedAfterInit =>
        /\ err.message # "Failed to convert, unknown ctx operation ctx" => out.held = <<>>
        /\ \/ trace = <<"as_cdt_ctx_init", "as_cdt_ctx_destroy">> /\ out.ctx = DestroyedCtx
           \/ /\ trace = <<"as_cdt_ctx_init">>
              /\ out.ctx # DestroyedCtx
              /\ \E i \in 1..Len(arg.op_dict.d[PyStr("ctx")].items) :
                    LET s == arg.op_dict.d[PyStr("ctx")].items[i]
                    IN /\ s.t = "_cdt_ctx"
                       /\ \E n \in arg.static_pool.current_bytes_id..AS_STATIC_POOL_SIZE :
                            ~OK(pyobject_to_val(err, s.value, arg.self, as_static_pool(n)).err)
C15_ContextLeft ==
    ~(/\ CtxCall
      /\ arg.op_dict.d = [k \in {PyStr("ctx")} |->
            PyList(<<CdtCtxStep(PyInt(SmallInt(AS_CDT_CTX_LIST_VALUE)), PyLong(BigInt(1, 0)))>>)]
      /\ CtxRejected
      /\ trace = <<"as_cdt_ctx_init">>
      /\ out.ctx = as_cdt_ctx(<<>>))
C15_Witness ==
    /\ CtxFailedAfterInit
    /\ Len(arg.op_dict.d[PyStr("ctx")].items) = 2
    /\ arg.op_dict.d[PyStr("ctx")].items[2] =
            CdtCtxStep(PyInt(SmallInt(AS_CDT_CTX_LIST_RANK)), PyStr("a"))
    /\ trace = <<"as_cdt_ctx_init", "as_cdt_ctx_destroy">>

----------------------------------------------------------------------------
(* C21: a pool that has run out *)

RECURSIVE HostScalars(_)
\* the host objects that are no list and no dictionary inside a host object
HostScalars(o) ==
    IF PyList_Check(o) THEN UNION {HostScalars(o.items[i]) : i \in DOMAIN o.items}
    ELSE IF PyDict_Check(o)
    THEN UNION {HostScalars(k) \cup HostScalars(o.d[k]) : k \in DOMAIN o.d}
    ELSE {o}

\* the pool had handed out all its as_bytes when the call was made
PoolEmptyAtCall == arg.static_pool.current_bytes_id = AS_STATIC_POOL_SIZE
\* a host object every dispatcher hands to the fallback serializer
NeedsBytes(o, self) ==
    PyBool_Check(o) \/ (o.t = "Geospatial" /\ ~self.has_geo)
\* o holds a value that needs an as_bytes of the pool, and no integer whose
\* conversion fails for its size
WrapperNeeded(o, self) ==
    /\ \E x \in HostScalars(o) : NeedsBytes(x, self)
    /\ \A x \in HostScalars(o) : ~(PyLong_Check(x) /\ PyLong_Overflows(x))
\* a call of pyobject_to_record on bins with usable names and no metadata,
\* the driver storing every bin, where the value of some bin needs an
\* as_bytes of the pool and no integer is too large
RecordNeedsWrapper ==
    /\ call = "pyobject_to_record"
    /\ arg.driver_ok
    /\ PyDict_Check(arg.py_rec)
    /\ arg.py_meta \in {PyNULL, Py_None}
    /\ \A k \in DOMAIN arg.py_rec.d :
          /\ PyString_Check(k) \/ PyUnicode_Check(k)
          /\ Len(PyString_AsString(k)) <= AS_BIN_NAME_MAX_LEN
    /\ WrapperNeeded(PyList(PyDict_Next({arg.py_rec.d[k] : k \in DOMAIN arg.py_rec.d})),
                     arg.self)

\* C21: when the pool has no as_bytes left and a value of the input needs
\* one, pyobject_to_val (and pyobject_to_list and pyobject_to_map under it)
\* and pyobject_to_record return AEROSPIKE_ERR_CLIENT, wherever the value
\* stands and whatever the strictness; they never return success without
\* the value.
C21_PoolExhaustionIsFatal ==
    /\ (call = "pyobject_to_val" /\ PoolEmptyAtCall /\ WrapperNeeded(arg.py_obj, arg.self))
        => (ret = AEROSPIKE_ERR_CLIENT /\ out = NoValue)
    /\ (RecordNeedsWrapper /\ PoolEmptyAtCall) => ret = AEROSPIKE_ERR_CLIENT

\* What the code does: pyobject_to_val and pyobject_to_astype_write fail
\* with AEROSPIKE_ERR_CLIENT; pyobject_to_record goes on with the next bin,
\* and returns AEROSPIKE_ERR_CLIENT only when the client is not strict and
\* no list follows the value.
C21_PoolExhaustionFatalForValues ==
    /\ (call \in {"pyobject_to_val", "pyobject_to_astype_write"} /\ PoolEmptyAtCall
            /\ WrapperNeeded(arg.py_obj, arg.self))
        => (ret = AEROSPIKE_ERR_CLIENT /\ out = NoValue)
    /\ (RecordNeedsWrapper /\ PoolEmptyAtCall)
        => \/ ret = AEROSPIKE_ERR_CLIENT
           \/ ret = AEROSPIKE_ERR_BIN_NAME /\ arg.self.strict_types
           \/ /\ ret = AEROSPIKE_OK
              /\ ~arg.self.strict_types
              /\ \E k \in DOMAIN arg.py_rec.d : PyList_Check(arg.py_rec.d[k])
\* pyobject_to_record({'b': True, 'c': [5]}) with the pool empty and the bool
\* first does not return AEROSPIKE_OK with the record holding c alone
C21_SuccessWithoutBin ==
    ~(/\ RecordNeedsWrapper /\ PoolEmptyAtCall
      /\ ret = AEROSPIKE_OK
      /\ \E k \in DOMAIN arg.py_rec.d :
            /\ PyBool_Check(arg.py_rec.d[k])
            /\ \A i \in 1..Len(out.bins) : out.bins[i].name # PyString_AsString(k))
\* a strict client does not answer the empty pool with AEROSPIKE_ERR_BIN_NAME
C21_StrictReportsBinName ==
    ~(RecordNeedsWrapper /\ PoolEmptyAtCall /\ ret = AEROSPIKE_ERR_BIN_NAME)
C21_Witness ==
    /\ call = "pyobject_to_val" /\ PoolEmptyAtCall
    /\ arg.py_obj = PyList(<<PyInt(SmallInt(5)), PyBool(TRUE)>>)
    /\ ret = AEROSPIKE_ERR_CLIENT

----------------------------------------------------------------------------
(* C22: the reset of the outcome record at entry *)

\* the outcome record of a caller that has had no failure
CleanErr == as_error_reset(PyNULL)

\* what a call of a read converter leaves: *err, the host object, the status
ReadOutcome(r) == <<r.err, r.obj, r.err.code>>

\* C22: every entry point resets the outcome record at entry, so a call
\* begun with the failure of an earlier call leaves the same output and
\* the same final status as the same call begun with a clean record.
\* Stated for the entry points without a reset in their code: the container
\* converters, pyobject_to_index, the batch converters and get_cdt_ctx.
C22_EntryResetsOutcome ==
    /\ call = "list_to_pyobject"
        => <<err, obj, ret>> = ReadOutcome(list_to_pyobject(CleanErr, arg.list))
    /\ call = "map_to_pyobject"
        => <<err, obj, ret>> = ReadOutcome(map_to_pyobject(CleanErr, arg.map))
    /\ call = "as_list_of_map_to_py_tuple_list"
        => <<err, obj, ret>> = ReadOutcome(as_list_of_map_to_py_tuple_list(CleanErr, arg.list))
    /\ call = "pyobject_to_index"
        => <<err, out>> = LET r == pyobject_to_index(CleanErr, arg.py_value, arg.self, SmallInt(0))
                          IN <<r.err, r.long_val>>
    /\ call = "as_batch_read_results_to_pyobject"
        => <<err, obj, ret>> = LET r == as_batch_read_results_to_pyobject(CleanErr, arg.results)
                               IN <<r.err, r.obj, r.ret>>
    /\ call = "batch_read_records_to_pyobject"
        => <<err, obj, ret>> = LET r == batch_read_records_to_pyobject(CleanErr, arg.results)
                               IN <<r.err, r.obj, r.ret>>
    /\ call = "get_cdt_ctx"
        => \E wild \in BOOLEAN :
              LET r == get_cdt_ctx(CleanErr, arg.op_dict, UninitCtx, FALSE, arg.self, wild,
                                   arg.static_pool)
              IN <<err, ret, out.ctx, out.ctx_in_use>> = <<r.err, r.ret, r.ctx, r.ctx_in_use>>

\* the entry points that do reset at entry leave what a call begun with a
\* clean record leaves
C22_ResettingEntryPoints ==
    /\ call = "do_val_to_pyobject" /\ arg.from = PyNULL
        => <<err, obj, ret>> =
              ReadOutcome(do_val_to_pyobject(CleanErr, arg.val, arg.cnvt_list_to_map))
    /\ call = "pyobject_to_val"
        => <<err, out>> = LET r == pyobject_to_val(CleanErr, arg.py_obj, arg.self, arg.static_pool)
                          IN <<r.err, r.val>>
    /\ call = "pyobject_to_record"
        => <<err, out>> = LET r == pyobject_to_record(CleanErr, arg.py_rec, arg.py_meta, NullRecord,
                                                       arg.self, arg.driver_ok, arg.static_pool)
                          IN <<r.err, r.rec>>

\* an empty list converted after a failed call: the stale failure is
\* returned, and no list
C22_StaleFailureReturned ==
    ~(call = "list_to_pyobject" /\ arg.list = as_list(<<>>) /\ ret = AEROSPIKE_ERR_PARAM
      /\ obj = PyNULL)

\* an offset converted after a failed call: the value is stored and the
\* stale failure returned
C22_IndexStaleFailure ==
    ~(call = "pyobject_to_index" /\ arg.py_value = PyInt(SmallInt(5)) /\ out = SmallInt(5)
      /\ ret = AEROSPIKE_ERR_PARAM)

----------------------------------------------------------------------------
(* C23: the status returned and the status recorded *)

\* the calls that return an as_status: all but the driver's digest and
\* initialize_bin_for_strictypes, which returns nothing; a call that ended
\* in the destruction of a wild context did not return
StatusCall == /\ call \notin {"none", "as_key_digest", "initialize_bin_for_strictypes"}
              /\ ret # NoReturn

\* C23: at every return of an entry point that returns a status, the
\* status returned is the code stored in the outcome record: never OK
\* beside a recorded failure, never a failure beside a recorded OK.
C23_ReturnedStatusIsRecorded == StatusCall => ret = err.code

\* the entry points that end in `return AEROSPIKE_OK`
ReturnsLiteralOk == call \in {"get_cdt_ctx", "as_batch_read_results_to_pyobject",
                              "batch_read_records_to_pyobject"}

\* everywhere else the two agree, and where they differ the status is OK
\* and the record holds the failure the caller came in with
C23_DiffersOnlyAtLiteralOk ==
    StatusCall /\ ret # err.code
        => /\ ReturnsLiteralOk
           /\ ret = AEROSPIKE_OK
           /\ err = as_error_update(CleanErr, AEROSPIKE_ERR_PARAM, "key is null")

\* get_cdt_ctx on an operation without a context, begun with a failure in
\* the record: OK is returned beside the failure
C23_OkBesideFailure ==
    ~(call = "get_cdt_ctx" /\ arg.op_dict = EmptyDict /\ ret = AEROSPIKE_OK
      /\ err.code = AEROSPIKE_ERR_PARAM)

----------------------------------------------------------------------------
(* C24: the range of the ttl and of the generation *)

\* a call that was given a metadata dictionary
MetaCall == call \in {"pyobject_to_record", "check_for_meta"} /\ PyDict_Check(arg.py_meta)

\* the entry of the metadata under a name, and whether it is an integer
MetaField(name) == PyDict_GetItemString(arg.py_meta, name)
MetaIsInteger(name) == MetaField(name) # PyNULL /\ MetaField(name).t \in {"int", "long"}

\* the integer fits 32 bits, 16 bits, unsigned (the integers of the model
\* that fit 32 bits are below 2^31)
InUint32(v) == v.q = 0 /\ v.r >= 0
InUint16(v) == v.q = 0 /\ v.r >= 0 /\ v.r <= 65535

\* C24: a ttl outside 0 .. 2^32-1 and a generation outside 0 .. 2^16-1 are
\* flagged as an error by pyobject_to_record and check_for_meta and never
\* stored truncated; a value inside the range is stored exactly.
C24_MetadataRangeChecked ==
    MetaCall =>
        /\ MetaIsInteger("ttl") /\ ~InUint32(IntegerOf(MetaField("ttl"))) => ret # AEROSPIKE_OK
        /\ MetaIsInteger("gen") /\ ~InUint16(IntegerOf(MetaField("gen"))) => ret # AEROSPIKE_OK
        /\ MetaIsInteger("ttl") /\ ret = AEROSPIKE_OK
               => out.ttl = SmallSize(IntegerOf(MetaField("ttl")).r)
        /\ MetaIsInteger("gen") /\ ret = AEROSPIKE_OK
               => out.gen = IntegerOf(MetaField("gen")).r

\* what the code does keep: an integer past 64 bits is flagged, and a value
\* inside the range is stored exactly by a call that succeeds
C24_InRangeStoredExactly ==
    MetaCall =>
        /\ \A name \in {"ttl", "gen"} :
              MetaIsInteger(name) /\ ~InInt64(IntegerOf(MetaField(name)))
                  => ret # AEROSPIKE_OK
        /\ MetaIsInteger("ttl") /\ InUint32(IntegerOf(MetaField("ttl"))) /\ ret = AEROSPIKE_OK
               => out.ttl = SmallSize(IntegerOf(MetaField("ttl")).r)
        /\ MetaIsInteger("gen") /\ InUint16(IntegerOf(MetaField("gen"))) /\ ret = AEROSPIKE_OK
               => out.gen = IntegerOf(MetaField("gen")).r

\* a ttl of -1 is stored as 2^32-1 by a call that succeeds
C24_NegativeTtlStored ==
    ~(MetaCall /\ MetaField("ttl") = PyInt(SmallInt(-1)) /\ ret = AEROSPIKE_OK
      /\ out.ttl = Size(0, 1, 2147483647))

\* a generation of 65538 is stored as 2 by a call that succeeds
C24_GenerationWrapped ==
    ~(MetaCall /\ MetaField("gen") = PyInt(SmallInt(65538)) /\ ret = AEROSPIKE_OK
      /\ out.gen = 2)

\* the greatest generation is stored as it is
C24_Witness ==
    /\ MetaCall /\ MetaField("gen") = PyInt(SmallInt(65535)) /\ ret = AEROSPIKE_OK
    /\ out.gen = 65535 /\ out.ttl = SmallSize(0)

----------------------------------------------------------------------------
(* C25: the limit on the length of a bin name *)

\* a bin name that is a text, and the length strlen gives for it
NameIsText(o) == o.t \in {"str", "unicode", "bytearray"}
NameLength(o) == IF o.t = "bytearray" THEN StrlenOfBytes(o.data)
                 ELSE Len(CString(PyString_AsString(o)))
NameTooLong(o) == NameIsText(o) /\ NameLength(o) > AS_BIN_NAME_MAX_LEN

\* a call of pyobject_to_record on a dictionary whose names are texts and
\* whose values are integers and strings, without metadata, the driver
\* taking every bin it can: nothing but the length of a name can fail
RecordOfPlainBins ==
    /\ call = "pyobject_to_record"
    /\ PyDict_Check(arg.py_rec)
    /\ arg.py_meta \in {PyNULL, Py_None}
    /\ \A k \in DOMAIN arg.py_rec.d :
          /\ PyString_Check(k) \/ PyUnicode_Check(k)
          /\ arg.py_rec.d[k] \in {PyInt(SmallInt(5)), PyStr("a")}
HasLongName == \E k \in DOMAIN arg.py_rec.d : NameTooLong(k)

BinNameLimitMessage == "A bin name should not exceed 14 characters limit"

\* C25: with strict_types set, pyobject_to_record and
\* bin_strict_type_checking reject a bin name longer than
\* AS_BIN_NAME_MAX_LEN with AEROSPIKE_ERR_BIN_NAME; with strict_types clear
\* the same name is never rejected by them because of its length.
C25_BinNameLimitOnlyInStrictMode ==
    /\ call = "bin_strict_type_checking" /\ arg.py_bin.t \in {"str", "bytearray"}
        => /\ arg.self.strict_types /\ NameTooLong(arg.py_bin)
               => ret = AEROSPIKE_ERR_BIN_NAME /\ err.message = BinNameLimitMessage
           /\ ~(arg.self.strict_types /\ NameTooLong(arg.py_bin))
               => ret = AEROSPIKE_OK
    /\ RecordOfPlainBins /\ arg.driver_ok /\ arg.self.strict_types /\ HasLongName
        => ret = AEROSPIKE_ERR_BIN_NAME /\ err.message = BinNameLimitMessage
    /\ RecordOfPlainBins /\ ~arg.self.strict_types
        => ret = AEROSPIKE_OK
    /\ call \in {"pyobject_to_record", "bin_strict_type_checking"} /\ ~arg.self.strict_types
        => ret # AEROSPIKE_ERR_BIN_NAME /\ err.message # BinNameLimitMessage

\* a record with a name of 15 characters: refused in strict mode
C25_Witness ==
    /\ RecordOfPlainBins /\ arg.driver_ok /\ arg.self.strict_types /\ HasLongName
    /\ ret = AEROSPIKE_ERR_BIN_NAME
    /\ err.message = BinNameLimitMessage

\* the same record on a client without strict_types: accepted, and the
\* name of exactly 14 characters accepted in strict mode
C25_LongNameAccepted ==
    ~(RecordOfPlainBins /\ ~arg.self.strict_types /\ HasLongName /\ ret = AEROSPIKE_OK)
C25_NameOfMaxLenAccepted ==
    ~(call = "bin_strict_type_checking" /\ arg.self.strict_types
      /\ arg.py_bin = PyStr("abcdefghijklmn") /\ ret = AEROSPIKE_OK)

----------------------------------------------------------------------------
(* C26: the first failure of a call stays *)

\* the conversion of the value of the only step of a context, as
\* get_cdt_ctx calls it (line 2022): the first failure of such a call
StepValueConverted == pyobject_to_val(CleanErr, TheStep.value, arg.self, arg.static_pool)

\* a call of pyobject_to_record on a dictionary whose first bin has a name
\* the call accepts
FirstBinNamed ==
    /\ call = "pyobject_to_record"
    /\ PyDict_Check(arg.py_rec)
    /\ DOMAIN arg.py_rec.d # {}
    /\ LET k == PyDict_Next(DOMAIN arg.py_rec.d)[1]
       IN /\ PyString_Check(k) \/ PyUnicode_Check(k)
          /\ ~NameTooLong(k)
\* the conversion of the value of that bin (lines 547-671): the first
\* failure of such a call
FirstBinConverted ==
    record_bin_value(CleanErr, arg.py_rec.d[PyDict_Next(DOMAIN arg.py_rec.d)[1]], arg.self,
                     arg.static_pool)

\* C26: within one call a failure recorded in the outcome record is never
\* replaced: the steps that follow neither change the code to another
\* failure code nor reset it to OK, so the status returned is that of the
\* first failure.  Stated for the wrapper error of get_cdt_ctx and for the
\* steps of pyobject_to_record that follow its first bin.
C26_FirstFailureIsReturned ==
    /\ OneStep /\ TheKind \in ValueKinds /\ ~OK(StepValueConverted.err)
        => ret = StepValueConverted.err.code
    /\ FirstBinNamed /\ ~OK(FirstBinConverted.err)
        => ret = FirstBinConverted.err.code

\* get_cdt_ctx: the failure of the converter is AEROSPIKE_ERR_CLIENT, the
\* status returned AEROSPIKE_ERR_PARAM
C26_WrapperReplacesCode ==
    ~(/\ OneStep /\ TheKind \in ValueKinds
      /\ StepValueConverted.err.code = AEROSPIKE_ERR_CLIENT
      /\ ret = AEROSPIKE_ERR_PARAM)

\* pyobject_to_record: the failure of the first bin is replaced by the one
\* of the strict-mode test, by the one of the metadata, or by OK
C26_UnableToSetReplacesCode ==
    ~(/\ FirstBinNamed /\ FirstBinConverted.err.code = AEROSPIKE_ERR_CLIENT
      /\ ret = AEROSPIKE_ERR_BIN_NAME /\ err.message = "Unable to set key-value pair")
C26_MetadataReplacesCode ==
    ~(/\ FirstBinNamed /\ FirstBinConverted.err.code = AEROSPIKE_ERR_CLIENT
      /\ ret = AEROSPIKE_ERR_PARAM /\ err.message = "TTL should be an int or long")
C26_FollowingBinResets ==
    ~(/\ FirstBinNamed /\ FirstBinConverted.err.code = AEROSPIKE_ERR_CLIENT
      /\ ret = AEROSPIKE_OK)

\* where the first failure leaves the function at once it is the one
\* returned: a bin that is an integer past 64 bits
C26_ReturnedAtOnce ==
    FirstBinNamed /\ FirstBinConverted.exit = "return" => err = FirstBinConverted.err

----------------------------------------------------------------------------
(* C27: a collection that failed to convert *)

\* the conversion of one element at some level of the pool
ElementConverted(o, n) == pyobject_to_val(CleanErr, o, arg.self, as_static_pool(n))
PoolLevels == 0..AS_STATIC_POOL_SIZE

\* the outputs of the three callers that test the status before they store
NoDestroyedValueStored ==
    /\ call \in {"pyobject_to_val", "pyobject_to_astype_write"} => out # AsDestroyed
    /\ call = "pyobject_to_record" /\ out.t = "AS_REC"
        => \A i \in 1..Len(out.bins) : out.bins[i].value # AsDestroyed

\* C27: when pyobject_to_list or pyobject_to_map fails on an element the
\* conversion stops there, the partly filled collection is destroyed, the
\* error is returned, and no caller (pyobject_to_val,
\* pyobject_to_astype_write, pyobject_to_record,
\* initialize_bin_for_strictypes) stores the destroyed collection in its
\* value, record or bin.
C27_DestroyedCollectionNeverStored ==
    /\ NoDestroyedValueStored
    /\ call = "initialize_bin_for_strictypes" => out.valuep # AsDestroyed

\* the three callers that test the status keep the claim, and a list that
\* fails returns the failure of its first failing element
C27_CheckedCallersStoreNothing ==
    /\ NoDestroyedValueStored
    /\ call = "pyobject_to_val" /\ PyList_Check(arg.py_obj) /\ ~OK(err)
        => /\ out = NoValue
           /\ \E i \in 1..Len(arg.py_obj.items) :
                 /\ \A j \in 1..(i - 1) : \E n \in PoolLevels :
                        OK(ElementConverted(arg.py_obj.items[j], n).err)
                 /\ \E n \in PoolLevels :
                        err = ElementConverted(arg.py_obj.items[i], n).err

\* initialize_bin_for_strictypes on a list with an integer past 64 bits:
\* the bin points at the list that was destroyed
C27_BinHoldsDestroyedList ==
    ~(/\ call = "initialize_bin_for_strictypes" /\ PyList_Check(arg.py_obj)
      /\ err.code = AEROSPIKE_ERR_PARAM /\ out.valuep = AsDestroyed)
C27_BinHoldsDestroyedMap ==
    ~(/\ call = "initialize_bin_for_strictypes" /\ PyDict_Check(arg.py_obj)
      /\ ~OK(err) /\ out.valuep = AsDestroyed)

----------------------------------------------------------------------------
(* C28: the three dispatchers of the write path *)

\* the variant of a driver value: its tag, and for bytes the raw or
\* serialized kind
Variant(v) == IF v.t = "AS_BYTES" THEN <<v.t, v.btype>> ELSE <<v.t>>

\* what the other two dispatchers make of the host value of a call of
\* pyobject_to_val
AsAstypeWrite == pyobject_to_astype_write(CleanErr, arg.py_obj, arg.self, arg.static_pool)
AsRecordBin == record_bin_value(CleanErr, arg.py_obj, arg.self, arg.static_pool)

\* a call of pyobject_to_val on a host value all three dispatchers convert
AllThreeConvert ==
    /\ call = "pyobject_to_val" /\ OK(err)
    /\ OK(AsAstypeWrite.err)
    /\ AsRecordBin.exit = "set"

\* C28: for every kind of host value pyobject_to_val, the per-bin dispatch
\* of pyobject_to_record and pyobject_to_astype_write produce the same
\* variant of driver value: the same tag, and for bytes the same choice
\* between raw and serialized.
C28_DispatchersAgree ==
    AllThreeConvert
        => /\ Variant(out) = Variant(AsAstypeWrite.val)
           /\ Variant(out) = Variant(AsRecordBin.val)

\* the kinds on which they differ: a bytearray, None, the wildcard, infinity
DivergentKind(o) == PyByteArray_Check(o) \/ o \in {Py_None, PyCdtWildcard, PyCdtInfinite}

\* on a value made of the other kinds the three agree on the whole value
C28_AgreeOnOtherKinds ==
    AllThreeConvert /\ (\A o \in HostScalars(arg.py_obj) : ~DivergentKind(o))
        => out = AsAstypeWrite.val /\ out = AsRecordBin.val

\* a bytearray: serialized by pyobject_to_val and the record, raw in
\* pyobject_to_astype_write
C28_ByteArrayRawOrSerialized ==
    ~(/\ AllThreeConvert /\ PyByteArray_Check(arg.py_obj)
      /\ Variant(out) = <<"AS_BYTES", "AS_BYTES_PYTHON">>
      /\ Variant(AsRecordBin.val) = <<"AS_BYTES", "AS_BYTES_PYTHON">>
      /\ Variant(AsAstypeWrite.val) = <<"AS_BYTES", "AS_BYTES_BLOB">>)

\* None: nil in pyobject_to_val, serialized in the other two
C28_NoneNilOrSerialized ==
    ~(/\ AllThreeConvert /\ arg.py_obj = Py_None
      /\ out = as_nil
      /\ Variant(AsRecordBin.val) = <<"AS_BYTES", "AS_BYTES_PYTHON">>
      /\ Variant(AsAstypeWrite.val) = <<"AS_BYTES", "AS_BYTES_PYTHON">>)

\* the wildcard: serialized by the record, a comparator in the other two
C28_WildcardSerializedInRecord ==
    ~(/\ AllThreeConvert /\ arg.py_obj = PyCdtWildcard
      /\ out = as_cmp_wildcard /\ AsAstypeWrite.val = as_cmp_wildcard
      /\ Variant(AsRecordBin.val) = <<"AS_BYTES", "AS_BYTES_PYTHON">>)

----------------------------------------------------------------------------
(* C29: flatten mode stops at the first level *)

\* do_val_to_pyobject called in flatten mode on a value of the driver
FlattenCall == ValCall /\ arg.from = PyNULL /\ arg.cnvt_list_to_map

\* the value converted in plain mode
PlainConverted == val_to_pyobject(CleanErr, arg.val)

\* C29: flatten mode applies only to a list that is the value itself: the
\* elements of the flattened list, and every list inside a map, a record or
\* another list, are converted in plain mode, so a nested list of odd length
\* causes no failure and a nested list of even length stays a list.
C29_FlattenOnlyAtTopLevel ==
    FlattenCall =>
        /\ arg.val.t # "AS_LIST" => <<err, obj>> = <<PlainConverted.err, PlainConverted.obj>>
        /\ arg.val.t = "AS_LIST" /\ Len(arg.val.items) % 2 = 0 =>
              /\ ret # AEROSPIKE_OK => \E i \in 1..Len(arg.val.items) : ~OK(ElemAlone(i).err)
              /\ ret = AEROSPIKE_OK =>
                    \A i \in 1..Len(arg.val.items) :
                        /\ obj.items[(i + 1) \div 2].items[2 - (i % 2)] = ElemAlone(i).obj
                        /\ arg.val.items[i].t = "AS_LIST" =>
                              /\ obj.items[(i + 1) \div 2].items[2 - (i % 2)].t = "list"
                              /\ Len(obj.items[(i + 1) \div 2].items[2 - (i % 2)].items)
                                     = Len(arg.val.items[i].items)

\* a list of a list of one element and a list of two: one pair of the two
\* lists, neither turned into pairs
C29_Witness ==
    /\ FlattenCall
    /\ arg.val = as_list(<<as_list(<<as_integer(SmallInt(3))>>),
                           as_list(<<as_integer(SmallInt(1)), as_integer(SmallInt(2))>>)>>)
    /\ ret = AEROSPIKE_OK
    /\ obj = PyList(<<PyTuple(<<PyList(<<PyInt(SmallInt(3))>>),
                                PyList(<<PyInt(SmallInt(1)), PyInt(SmallInt(2))>>)>>)>>)

\* a map with a list of even length, in flatten mode: the list stays a list
C29_ListInMapStaysList ==
    ~(/\ FlattenCall /\ arg.val.t = "AS_MAP" /\ ret = AEROSPIKE_OK
      /\ obj = PyDict_SetItem(EmptyDict, PyStr("k"),
                              PyList(<<PyInt(SmallInt(1)), PyInt(SmallInt(2))>>)))

----------------------------------------------------------------------------
(* C30: the destruction of the context *)

\* the operation of the call has a 'ctx' entry
HasCtxEntry == PyStr("ctx") \in DOMAIN arg.op_dict.d

\* as_cdt_ctx_destroy is called at most once, and after as_cdt_ctx_init
DestroyedAfterInit ==
    \A i \in 1..Len(trace) :
        trace[i] = "as_cdt_ctx_destroy"
            => /\ \E j \in 1..(i - 1) : trace[j] = "as_cdt_ctx_init"
               /\ \A j \in 1..Len(trace) : trace[j] = "as_cdt_ctx_destroy" => j = i

\* without a 'ctx' entry the call returns OK and touches neither the
\* context nor the flag
NoEntryLeavesContext ==
    ~HasCtxEntry => /\ ret = AEROSPIKE_OK
                    /\ trace = <<>>
                    /\ out.ctx = UninitCtx
                    /\ out.ctx_in_use = FALSE

\* C30: get_cdt_ctx destroys the context only after it has initialized it
\* and at most once in a call: as_cdt_ctx_destroy is never called on a
\* context as_cdt_ctx_init was not called for; and without a 'ctx' entry
\* the function returns OK and leaves the context and ctx_in_use as they
\* were.
C30_DestroyOnlyAfterInit == CtxCall => DestroyedAfterInit /\ NoEntryLeavesContext

\* what the code keeps: the case without an entry, and a context that is a
\* list
C30_ListContextDestroyedOnce ==
    CtxCall => /\ NoEntryLeavesContext
               /\ HasCtxEntry /\ PyList_Check(arg.op_dict.d[PyStr("ctx")]) => DestroyedAfterInit

\* a 'ctx' entry that is no list: the context is destroyed and was never
\* initialized
C30_DestroyWithoutInit ==
    ~(/\ CtxCall /\ HasCtxEntry /\ ~PyList_Check(arg.op_dict.d[PyStr("ctx")])
      /\ trace = <<"as_cdt_ctx_destroy">>)

====
